---- MODULE Spec2Model ----
(***************************************************************************)
(* The maze generation core (src/lib/mazeGenerator.ts), the path parser    *)
(* and the outline stage (src/lib/clipperUtils.ts), and the DXF writer     *)
(* and the export handlers (src/components/MazeViewer.tsx) of              *)
(* mazemas-2025 as state machines.                                         *)
(*                                                                         *)
(* Numbers.  Lengths are millimetres (the configurations used are whole    *)
(* numbers).  Angles are whole multiples of 1/Turn(numRings) of a full     *)
(* turn, Turn being four times the least common multiple of the rings'     *)
(* cell counts, so that every cell angle c/numCells*2*pi and the target    *)
(* -pi/2 are exact.  pi is 355/113 where a number of radians is needed.    *)
(* A value of random() is its first six decimals, 0..999999, and a weight  *)
(* is counted in units of 1/20000, so that random()*50.0 is the value of   *)
(* random() itself.                                                        *)
(***************************************************************************)
EXTENDS Integers, Sequences, FiniteSets, TLC

VARIABLES
  pc,           \* position inside generateMaze: idle, grow, select, rotate, stitch, solution, done, threw
  oracle,       \* TRUE: random() may return any value of OracleLevels
  kept,         \* observer: NotKept, or the config and MazeData of one call that
                \* returned and the number of calls started since (2: two or more)
  lastWeighted, \* observer: weightedNeighbors of the last iteration of the loop, before
                \* the sort (<<>> when it had no candidate)
  config,       \* argument of the running call
  seedValue,    \* mazeGenerator.ts:7
  numRings,     \* mazeGenerator.ts:19
  nodes,        \* mazeGenerator.ts:21, the ids in creation order
  visited,      \* MazeNode.visited, by id
  parent,       \* MazeNode.parent, by id (NoNode is null)
  theta,        \* MazeNode.theta, by id
  xy,           \* MazeNode.x and .y, by id, as a radius and an angle
  active,       \* mazeGenerator.ts:111
  edges,        \* mazeGenerator.ts:115
  entryDirMap,  \* mazeGenerator.ts:116
  startNode,    \* mazeGenerator.ts:212
  pathD,        \* mazeGenerator.ts:385, the commands of the string
  solutionD,    \* mazeGenerator.ts:408
  result,       \* what the call returned or threw
  ppc,          \* position inside svgPathToClipperPaths: idle, scan, returned
  parsePathD,   \* clipperUtils.ts:113, the argument pathD as its tokens
  lastIndex,    \* commandRegex.lastIndex, as the index of the next token
  paths,        \* clipperUtils.ts:114
  currentPath,  \* clipperUtils.ts:115
  currentX,     \* clipperUtils.ts:116
  currentY,     \* clipperUtils.ts:117
  startX,       \* clipperUtils.ts:118
  startY,       \* clipperUtils.ts:119
  parsed,       \* what svgPathToClipperPaths returned or threw
  dxfPc,        \* position inside generateDXF: idle, header, tables, entities, paths, returned
  dxfArgs,      \* MazeViewer.tsx:211-215, outlines, diameter and wedgeData
  dxf,          \* MazeViewer.tsx:216, the group code and value pairs added so far
  dxfCalls,     \* the calls of addPathToDXF of lines 364-373 still to make
  dxfContent,   \* what generateDXF returned
  olPc,         \* position inside createMazeOutline: idle, mazePaths, entrancePaths,
                \* offset, union, returned
  olArgs,       \* clipperUtils.ts:363-371, the arguments
  allPaths,     \* clipperUtils.ts:373-375, mazePaths and then allPaths
  offsetted,    \* clipperUtils.ts:378
  outlines,     \* what createMazeOutline returned
  exPc,         \* position inside an export handler: idle, suspended, outline, wedge,
                \* serialise, download, finally, abandoned
  exKind,       \* which handler runs: svg (handleDownloadSVGOutlined) or dxf (handleExportDXF)
  exData,       \* the props.data the running handler was created with
  isExporting,  \* MazeViewer.tsx:23
  exportProgress, \* MazeViewer.tsx:24
  exOutlines,   \* outlines, MazeViewer.tsx:62 and 153
  exWedge,      \* wedgeData, MazeViewer.tsx:76 and 167
  content,      \* svgContent (MazeViewer.tsx:98) or dxfContent (MazeViewer.tsx:182)
  files,        \* the files given to the browser by link.click(), oldest first
  filesBefore,  \* observer: how many files there were when the running handler started
  rotPc,        \* position at the rotation loop taken alone: idle, loop, rotated
  rotRings,     \* numRings of the grid the loop runs on
  rotStart,     \* startNode
  rotTheta,     \* node.theta, by id
  clipperPaths  \* clipperUtils.ts:323, the argument paths of clipperPathsToSvgPath

vars == <<pc, oracle, kept, lastWeighted, config, seedValue, numRings, nodes, visited,
          parent, theta, xy, active, edges, entryDirMap, startNode, pathD, solutionD,
          result, ppc, parsePathD, lastIndex, paths, currentPath, currentX,
          currentY, startX, startY, parsed, dxfPc, dxfArgs, dxf, dxfCalls,
          dxfContent, olPc, olArgs, allPaths, offsetted, outlines, exPc, exKind,
          exData, isExporting, exportProgress, exOutlines, exWedge, content, files,
          filesBefore, rotPc, rotRings, rotStart, rotTheta, clipperPaths>>

roundTripVars == <<clipperPaths>>

rotationVars == <<rotPc, rotRings, rotStart, rotTheta>>

outlineVars == <<olPc, olArgs, allPaths, offsetted, outlines>>

exportVars == <<exPc, exKind, exData, isExporting, exportProgress, exOutlines, exWedge,
                content, files, filesBefore>>

dxfVars == <<dxfPc, dxfArgs, dxf, dxfCalls, dxfContent>>

parseVars == <<ppc, parsePathD, lastIndex, paths, currentPath, currentX, currentY,
               startX, startY, parsed>>

mazeVars == <<pc, oracle, kept, lastWeighted, config, seedValue, numRings, nodes, visited,
              parent, theta, xy, active, edges, entryDirMap, startNode, pathD,
              solutionD, result>>

nonMazeVars == <<parseVars, dxfVars, outlineVars, exportVars, rotationVars, roundTripVars>>

nonParseVars == <<mazeVars, dxfVars, outlineVars, exportVars, rotationVars, roundTripVars>>

nonDxfVars == <<mazeVars, parseVars, outlineVars, exportVars, rotationVars, roundTripVars>>

nonExportVars == <<mazeVars, parseVars, dxfVars, outlineVars, rotationVars, roundTripVars>>

\* an action of createMazeOutline says itself what becomes of the parser's variables
nonOutlineVars == <<mazeVars, dxfVars, exportVars, rotationVars, roundTripVars>>

-----------------------------------------------------------------------------
(* Bounds and inputs *)

MaxSeed == 4

Diameters == {30, 60, 86, 136}
Difficulties == {1, 4}

Configs ==
  [diameter : Diameters, wallWidth : {11}, corridorWidth : {14},
   difficulty : Difficulties, seed : 0..MaxSeed]

\* the inputs of the calls of which only the grid is looked at
GridDiameters == {10 * d : d \in 3..34}
GridConfigs ==
  [diameter : GridDiameters, wallWidth : {9, 11}, corridorWidth : {14, 16},
   difficulty : {4}, seed : {0}]

\* the inputs of the runs whose random() is arbitrary
OracleDiameters == {60, 86}
OracleConfigs ==
  [diameter : OracleDiameters, wallWidth : {11}, corridorWidth : {14},
   difficulty : {4}, seed : {0}]

RandUnit == 1000000
OracleLevels == {0, 999999}

NoNode == <<-1, -1>>
None == "none"
NoResult == [kind |-> "none"]
NotKept == [kept |-> FALSE]

-----------------------------------------------------------------------------
(* random(): the first six decimals of frac(sin(s) * 10000), s = 0..299 *)

RandTable ==
  <<
      0, 709848, 974268, 200080, 975046, 757253, 845018, 865987, 582466, 184852,
      788891, 97934, 270819, 670368, 73556, 878401, 966833, 25081, 127532, 772096,
      452507, 556385, 486907, 795958, 216379, 482499, 584504, 759284, 57883, 661157,
      683759, 623546, 266812, 118601, 826861, 173305, 211465, 618666, 685787, 953862,
      131604, 773311, 784520, 252573, 19251, 35245, 883476, 731227, 453386, 473472,
      251462, 291758, 275920, 251501, 109511, 448266, 489979, 647552, 726480, 380071,
      893788, 822299, 193033, 557003, 260381, 286794, 488459, 800210, 723193, 151862,
      906815, 546532, 233627, 280431, 537395, 183645, 76368, 201585, 784559, 873312,
      113460, 120057, 287824, 644611, 903200, 243800, 415529, 821633, 983027, 694058,
      966636, 875117, 339303, 178587, 480145, 617147, 877454, 77390, 181280, 931658,
      343588, 257871, 267913, 886314, 775968, 647164, 574999, 817445, 185054, 426066,
      573219, 485513, 43956, 180941, 803886, 353340, 613933, 20590, 478309, 958985,
      111842, 152247, 131538, 965093, 130131, 595408, 908256, 300672, 377105, 266079,
      940498, 966128, 835871, 657562, 248164, 686861, 667932, 855454, 477404, 801312,
      396594, 713653, 49928, 546391, 784061, 451620, 691731, 440218, 666056, 513519,
      235703, 498814, 205237, 5807, 796627, 880172, 153811, 514571, 240965, 197317,
      252583, 922144, 496492, 898241, 327780, 972794, 915637, 498131, 267112, 1323,
      494554, 908679, 591401, 894670, 380257, 654048, 522360, 897877, 753358, 221672,
      473642, 485998, 189340, 804082, 843832, 211800, 760624, 289766, 763309, 179536,
      992786, 85484, 616423, 434253, 136707, 546679, 300555, 58429, 214083, 11639,
      27027, 97492, 184068, 97001, 203593, 24922, 580968, 949724, 679301, 666417,
      185183, 521461, 529062, 293801, 994513, 456219, 584883, 183905, 754726, 852585,
      987124, 387978, 508382, 534852, 790026, 51219, 561828, 585970, 230624, 623697,
      357959, 158102, 232767, 392818, 166912, 866409, 679105, 421302, 238868, 906812,
      451549, 617132, 880924, 906511, 637006, 874367, 599996, 71855, 521192, 368065,
      719804, 61397, 122110, 237286, 988980, 83650, 919658, 428251, 356268, 931839,
      397038, 187909, 82904, 528145, 174862, 101700, 540264, 681772, 649889, 531197,
      540535, 108186, 569384, 1548, 885933, 146740, 143399, 43136, 210918, 827877,
      905791, 485636, 502354, 525197, 639681, 715902, 852411, 590518, 956292, 789797,
      456339, 142254, 259810, 990012, 900107, 180889, 612505, 690550, 376291, 232783 >>

random(s) == RandTable[s + 1]

RandomValues(s) == IF oracle THEN OracleLevels ELSE {random(s)}

AdvanceSeed(s, n) == IF oracle THEN s ELSE s + n

-----------------------------------------------------------------------------
(* 1. Create Grid (Polar Graph) *)

stepSize(cfg) == cfg.corridorWidth + cfg.wallWidth

\* twice usableRadius = radius - margin - corridorWidth / 2, to stay in whole numbers
usableRadius2(cfg) == cfg.diameter - 2 * cfg.wallWidth - cfg.corridorWidth

\* Math.floor(usableRadius / stepSize)
NumRingsOf(cfg) == usableRadius2(cfg) \div (2 * stepSize(cfg))

\* Math.floor in the place of Math.round
numCellsFloor(r) == (1420 * r) \div 226

\* Math.round(circumference / stepSize) = round(2 * pi * r), pi = 355/113
numCells(r) == (1420 * r + 113) \div 226

RECURSIVE Gcd(_, _)
Gcd(a, b) == IF b = 0 THEN a ELSE Gcd(b, a % b)

RECURSIVE LcmCells(_)
LcmCells(n) ==
  IF n < 1 THEN 1
  ELSE LET l == LcmCells(n - 1) IN (l * numCells(n)) \div Gcd(l, numCells(n))

\* the units of a full turn (2 * pi) in a maze of n rings
Turn(n) == 4 * LcmCells(n)

centerNode == <<0, 0>>

\* ringNodes[r], r >= 1, as the sequence of its ids
ringRow(r) == [c \in 1..numCells(r) |-> <<r, c - 1>>]

\* ringNodes[r] for any index: [centerNode] at 0, undefined (here <<>>) outside 0..n
ringNodes(n, r) ==
  IF r = 0 THEN <<centerNode>>
  ELSE IF r >= 1 /\ r <= n THEN ringRow(r)
  ELSE <<>>

RECURSIVE createGrid(_)
createGrid(n) == IF n < 1 THEN <<centerNode>> ELSE createGrid(n - 1) \o ringRow(n)

NodeSet(n) == {centerNode} \cup UNION {{<<r, c>> : c \in 0..(numCells(r) - 1)} : r \in 1..n}

\* theta = (c / numCells) * 2 * Math.PI
initialTheta(turn, id) == IF id[1] = 0 THEN 0 ELSE id[2] * (turn \div numCells(id[1]))

\* (x, y) = (currentRadius * cos(theta), currentRadius * sin(theta))
initialXY(cfg, turn, id) ==
  [rad |-> id[1] * stepSize(cfg), ang |-> initialTheta(turn, id)]

-----------------------------------------------------------------------------
(* Helper: Get strictly adjacent neighbors *)

\* Math.floor in the place of Math.round
floorIndex(myIndex, myCount, otherCount) == ((myIndex * otherCount) \div myCount) % otherCount

\* Math.round(myIndex * (otherCount / myCount)) % otherCount
ratioIndex(myIndex, myCount, otherCount) ==
  ((2 * myIndex * otherCount + myCount) \div (2 * myCount)) % otherCount

\* the neighbours with the cell after the next one for the clockwise neighbour
getNeighborsSkipping(n, node) ==
  IF node[1] = 0
  THEN ringNodes(n, 1)
  ELSE
    LET r == node[1]
        myIndex == node[2]
        myCount == numCells(r)
        cwIndex == (myIndex + 2) % myCount
        ccwIndex == (myIndex - 1 + myCount) % myCount
        sideways == << <<r, cwIndex>>, <<r, ccwIndex>> >>
        inward ==
          IF r = 1 THEN <<centerNode>>
          ELSE << <<r - 1, ratioIndex(myIndex, myCount, numCells(r - 1))>> >>
        outward ==
          IF r < n THEN << <<r + 1, ratioIndex(myIndex, myCount, numCells(r + 1))>> >>
          ELSE <<>>
    IN sideways \o inward \o outward

getNeighbors(n, node) ==
  IF node[1] = 0
  THEN ringNodes(n, 1)
  ELSE
    LET r == node[1]
        myIndex == node[2]
        myCount == numCells(r)
        cwIndex == (myIndex + 1) % myCount
        ccwIndex == (myIndex - 1 + myCount) % myCount
        sideways == << <<r, cwIndex>>, <<r, ccwIndex>> >>
        inward ==
          IF r = 1 THEN <<centerNode>>
          ELSE << <<r - 1, ratioIndex(myIndex, myCount, numCells(r - 1))>> >>
        outward ==
          IF r < n THEN << <<r + 1, ratioIndex(myIndex, myCount, numCells(r + 1))>> >>
          ELSE <<>>
    IN sideways \o inward \o outward

-----------------------------------------------------------------------------
(* 2. Generate Maze: Growing Tree Algorithm *)

WeightUnit == 20000

\* branchProb = 0.02 + difficulty * 0.08, in units of 1/RandUnit
branchProb(cfg) == 20000 + cfg.difficulty * 80000

\* inertiaWeight = 500 - difficulty * 60
inertiaWeight(cfg) == 500 - cfg.difficulty * 60

inwardBonus == 1200

\* direction of n relative to current
dirOf(current, n) ==
  IF n[1] > current[1] THEN "OUT"
  ELSE IF n[1] < current[1] THEN "IN"
  ELSE "SIDE"

\* the weight of one candidate, jitter being the value random() returned for it
weightOf(cfg, prevDir, dir, jitter) ==
  LET w0 == 100 * WeightUnit
      w1 == IF prevDir # None
            THEN IF prevDir = dir
                 THEN w0 + inertiaWeight(cfg) * WeightUnit
                 ELSE w0 - 50 * WeightUnit
            ELSE w0
      w2 == IF dir = "IN" THEN w1 + inwardBonus * WeightUnit ELSE w1
      w3 == IF cfg.difficulty > 3 /\ dir = "OUT" THEN w2 - 40 * WeightUnit ELSE w2
      w4 == w3 + jitter
  IN IF w4 > WeightUnit THEN w4 ELSE WeightUnit

\* the last of the candidates of greatest weight
pickLastBest(weighted) ==
  CHOOSE i \in 1..Len(weighted) :
    /\ \A j \in 1..Len(weighted) : weighted[j].weight <= weighted[i].weight
    /\ \A j \in (i + 1)..Len(weighted) : weighted[j].weight < weighted[i].weight

\* weightedNeighbors.sort((a, b) => b.weight - a.weight)[0]: the sort is stable,
\* so the first of the candidates of greatest weight comes first
pickBest(weighted) ==
  CHOOSE i \in 1..Len(weighted) :
    /\ \A j \in 1..Len(weighted) : weighted[j].weight <= weighted[i].weight
    /\ \A j \in 1..(i - 1) : weighted[j].weight < weighted[i].weight

\* active.pop(): the last node leaves, whatever currentIndex is
spliceLast(seq, i) == SubSeq(seq, 1, Len(seq) - 1)

spliceNothing(seq, i) == seq

\* active.splice(currentIndex, 1)
splice(seq, i) == SubSeq(seq, 1, i - 1) \o SubSeq(seq, i + 1, Len(seq))

\* the values random() returns to the k calls made from seed value s on
jitters(s, k) ==
  IF oracle THEN [1..k -> OracleLevels]
  ELSE {[i \in 1..k |-> random(s + i - 1)]}

allNeighbors(current) == getNeighbors(numRings, current)

\* the neighbours that are not in active
inactiveNeighbors(current) ==
  LET IsInactive(n) == \A i \in 1..Len(active) : active[i] # n
  IN SelectSeq(getNeighbors(numRings, current), IsInactive)

\* the candidates of current: getNeighbors(current).filter(n => !n.visited)
unvisitedNeighbors(current) ==
  LET IsUnvisited(n) == ~visited[n]
  IN SelectSeq(getNeighbors(numRings, current), IsUnvisited)

Inputs == IF oracle THEN OracleConfigs ELSE Configs

\* a seedValue that outlives the call when the config is the one of the call before
carriedSeed(cfg) == IF pc = "done" /\ cfg = config THEN seedValue ELSE cfg.seed

\* let seedValue = seed
initialSeed(cfg) == cfg.seed

\* generateMaze(config) up to the first test of the loop (lines 3-133)
Generate(cfg) ==
  LET n == NumRingsOf(cfg)
      turn == Turn(n)
      ids == NodeSet(n)
  IN /\ pc \in {"idle", "done", "threw"}
     /\ config' = cfg
     /\ seedValue' = initialSeed(cfg)
     /\ numRings' = n
     /\ nodes' = createGrid(n)
     /\ visited' = [id \in ids |-> id = centerNode]
     /\ parent' = [id \in ids |-> NoNode]
     /\ theta' = [id \in ids |-> initialTheta(turn, id)]
     /\ xy' = [id \in ids |-> initialXY(cfg, turn, id)]
     /\ active' = <<centerNode>>
     /\ edges' = <<>>
     /\ entryDirMap' = [id \in ids |-> None]
     /\ startNode' = NoNode
     /\ pathD' = <<>>
     /\ solutionD' = <<>>
     /\ result' = NoResult
     /\ lastWeighted' = <<>>
     /\ pc' = "grow"
     /\ kept' = IF kept.kept /\ kept.later < 2
                THEN [kept EXCEPT !.later = kept.later + 1]
                ELSE kept
     /\ UNCHANGED oracle
     /\ UNCHANGED nonMazeVars

\* the body of the loop when current has a candidate (lines 150-203)
Extend(current, neighbors, jit) ==
  LET prevDir == entryDirMap[current]
      weightedNeighbors ==
        [i \in 1..Len(neighbors) |->
          [node |-> neighbors[i],
           dir |-> dirOf(current, neighbors[i]),
           weight |-> weightOf(config, prevDir, dirOf(current, neighbors[i]), jit[i])]]
      chosen == weightedNeighbors[pickBest(weightedNeighbors)]
      neighbor == chosen.node
  IN /\ visited' = [visited EXCEPT ![neighbor] = TRUE]
     /\ parent' = [parent EXCEPT ![neighbor] = current]
     /\ edges' = Append(edges, <<current, neighbor>>)
     /\ entryDirMap' = [entryDirMap EXCEPT ![neighbor] = chosen.dir]
     /\ active' = Append(active, neighbor)
     /\ lastWeighted' = weightedNeighbors

\* one iteration of while (active.length > 0) (lines 135-208)
GrowStep ==
  /\ pc = "grow"
  /\ Len(active) > 0
  /\ \E r1 \in RandomValues(seedValue) :
       LET branch == r1 < branchProb(config)
       IN \E r2 \in (IF branch THEN RandomValues(seedValue + 1) ELSE {0}) :
            LET currentIndex ==
                  IF branch THEN (r2 * Len(active)) \div RandUnit + 1 ELSE Len(active)
                drawn == IF branch THEN 2 ELSE 1
                current == active[currentIndex]
                neighbors == unvisitedNeighbors(current)
            IN IF Len(neighbors) > 0
               THEN \E jit \in jitters(seedValue + drawn, Len(neighbors)) :
                      /\ Extend(current, neighbors, jit)
                      /\ seedValue' = AdvanceSeed(seedValue, drawn + Len(neighbors))
               ELSE /\ active' = splice(active, currentIndex)
                    /\ lastWeighted' = <<>>
                    /\ seedValue' = AdvanceSeed(seedValue, drawn)
                    /\ UNCHANGED <<visited, parent, edges, entryDirMap>>
  /\ UNCHANGED <<pc, oracle, kept, config, numRings, nodes, theta, xy,
                 startNode, pathD, solutionD, result>>
  /\ UNCHANGED nonMazeVars

-----------------------------------------------------------------------------
(* 3. Find Hardest Start Point and Rotate Maze to Put Entry at Top *)

\* while (d > Math.PI) d -= 2 * Math.PI; while (d < -Math.PI) d += 2 * Math.PI
RECURSIVE normalize(_, _)
normalize(d, turn) ==
  IF 2 * d > turn THEN normalize(d - turn, turn)
  ELSE IF 2 * d < -turn THEN normalize(d + turn, turn)
  ELSE d

abs(x) == IF x < 0 THEN -x ELSE x

\* the inner loop while (curr.parent) of the scoring (lines 224-247)
RECURSIVE walkChain(_, _, _, _, _)
walkChain(curr, prevRadialDir, inflections, length, totalRotation) ==
  IF parent[curr] = NoNode
  THEN [length |-> length, inflections |-> inflections, rotation |-> totalRotation]
  ELSE
    LET next == parent[curr]
        currentRadialDir ==
          IF next[1] < curr[1] THEN 1 ELSE IF next[1] > curr[1] THEN -1 ELSE 0
        turned ==
          currentRadialDir # 0 /\ prevRadialDir # 0 /\ currentRadialDir # prevRadialDir
        dTheta == normalize(theta[next] - theta[curr], Turn(numRings))
    IN walkChain(next,
                 IF currentRadialDir # 0 THEN currentRadialDir ELSE prevRadialDir,
                 IF turned THEN inflections + 1 ELSE inflections,
                 length + 1,
                 totalRotation + abs(dTheta))

chainOf(node) == walkChain(node, 0, 0, 0, 0)

\* score = length * 1 + inflections * 200 + totalRotation * 10, times 113 * Turn:
\* a rotation of u units is u * 2 * pi / Turn radians and pi is 355/113
scoreOf(node) ==
  LET c == chainOf(node)
  IN (c.length + 200 * c.inflections) * 113 * Turn(numRings) + 7100 * c.rotation

MinusInfinity == -1

\* the loop with score >= maxScore for its test
RECURSIVE lastHardest(_, _, _, _)
lastHardest(outerNodes, i, best, maxScore) ==
  IF i > Len(outerNodes) THEN best
  ELSE IF scoreOf(outerNodes[i]) >= maxScore
       THEN lastHardest(outerNodes, i + 1, outerNodes[i], scoreOf(outerNodes[i]))
       ELSE lastHardest(outerNodes, i + 1, best, maxScore)

\* for (const node of outerNodes) { ... if (score > maxScore) ... } (lines 215-257)
RECURSIVE hardest(_, _, _, _)
hardest(outerNodes, i, best, maxScore) ==
  IF i > Len(outerNodes) THEN best
  ELSE IF scoreOf(outerNodes[i]) > maxScore
       THEN hardest(outerNodes, i + 1, outerNodes[i], scoreOf(outerNodes[i]))
       ELSE hardest(outerNodes, i + 1, best, maxScore)

\* the end of the loop and the choice of startNode (lines 135, 210-257);
\* ringNodes[numRings] is undefined when numRings < 0 and outerNodes[0] throws
SelectEntry ==
  /\ pc = "grow"
  /\ Len(active) = 0
  /\ IF numRings < 0
     THEN /\ pc' = "threw"
          /\ result' = [kind |-> "error", error |-> "TypeError"]
          /\ UNCHANGED startNode
     ELSE /\ pc' = "rotate"
          /\ startNode' = hardest(ringNodes(numRings, numRings), 1,
                                  ringNodes(numRings, numRings)[1], MinusInfinity)
          /\ UNCHANGED result
  /\ UNCHANGED <<oracle, kept, lastWeighted, config, seedValue, numRings, nodes, visited,
                 parent, theta, xy, active, edges, entryDirMap, pathD, solutionD>>
  /\ UNCHANGED nonMazeVars

\* targetTheta = -Math.PI / 2
targetTheta(turn) == -(turn \div 4)

reversedRotationAngle == theta[startNode] - targetTheta(Turn(numRings))

rotationAngle == targetTheta(Turn(numRings)) - theta[startNode]

\* node.x, node.y left as they are
unrotatedXY(p, angle, turn) == p

\* node.x, node.y turned by rotationAngle (lines 269-272)
rotateXY(p, angle, turn) == [rad |-> p.rad, ang |-> (p.ang + angle) % turn]

\* node.theta + rotationAngle, left as it is
unnormalizedTheta(t, angle, turn) == t + angle

\* node.theta + rotationAngle, normalised (lines 275-277)
rotateTheta(t, angle, turn) == normalize(t + angle, turn)

\* for (const node of nodes) { if (node.r === 0) continue; ... } (lines 259-278)
Rotate ==
  /\ pc = "rotate"
  /\ xy' = [id \in DOMAIN xy |->
             IF id[1] = 0 THEN xy[id]
             ELSE rotateXY(xy[id], rotationAngle, Turn(numRings))]
  /\ theta' = [id \in DOMAIN theta |->
                IF id[1] = 0 THEN theta[id]
                ELSE rotateTheta(theta[id], rotationAngle, Turn(numRings))]
  /\ pc' = "stitch"
  /\ UNCHANGED <<oracle, kept, lastWeighted, config, seedValue, numRings, nodes, visited,
                 parent, active, edges, entryDirMap, startNode, pathD, solutionD, result>>
  /\ UNCHANGED nonMazeVars

-----------------------------------------------------------------------------
(* 4. Generate SVG Paths (Stitched for Smoothness) *)

\* (x.toFixed(2), y.toFixed(2)): the two-decimal text of a point, kept as the
\* point it was printed from
toFixed2(p) == [rad |-> p.rad, ang |-> p.ang, decimals |-> 2]

\* adjacency.get(id) from edge i on: p2 is pushed for p1 and p1 for p2, edge by edge
RECURSIVE adjacencyFrom(_, _)
adjacencyFrom(id, i) ==
  IF i > Len(edges) THEN <<>>
  ELSE (IF edges[i][1] = id THEN <<edges[i][2]>> ELSE <<>>)
       \o (IF edges[i][2] = id THEN <<edges[i][1]>> ELSE <<>>)
       \o adjacencyFrom(id, i + 1)

adjacency(id) == adjacencyFrom(id, 1)

\* Array.from(adjacency.keys()): ids in the order the edges first name them
RECURSIVE adjacencyKeys(_, _)
adjacencyKeys(i, keys) ==
  IF i > Len(edges) THEN keys
  ELSE LET InKeys(s, id) == \E k \in 1..Len(s) : s[k] = id
           k1 == IF InKeys(keys, edges[i][1]) THEN keys ELSE Append(keys, edges[i][1])
           k2 == IF InKeys(k1, edges[i][2]) THEN k1 ELSE Append(k1, edges[i][2])
       IN adjacencyKeys(i + 1, k2)

\* 1. Identify Junctions (degree != 2)
junctions ==
  LET IsJunction(id) == Len(adjacency(id)) # 2
  IN SelectSeq(adjacencyKeys(1, <<>>), IsJunction)

directedEdgeKey(n1, n2) == <<n1, n2>>

\* [n1.id, n2.id].sort().join('-')
getEdgeKey(n1, n2) == {n1, n2}

\* Draw curr -> next with the sweep taken from the difference of the thetas as it is
drawStepUnnormalized(curr, next) ==
  IF curr[1] # next[1]
  THEN [cmd |-> "L", pt |-> toFixed2(xy[next])]
  ELSE LET dTheta == theta[next] - theta[curr]
           r == curr[1] * stepSize(config)
       IN [cmd |-> "A", rx |-> r, ry |-> r, rotation |-> 0, largeArc |-> 0,
           sweep |-> IF dTheta > 0 THEN 1 ELSE 0, pt |-> toFixed2(xy[next])]

\* Draw curr -> next: a line between rings, an arc inside a ring (lines 356-367, 395-404)
drawStep(curr, next) ==
  IF curr[1] # next[1]
  THEN [cmd |-> "L", pt |-> toFixed2(xy[next])]
  ELSE LET dTheta == normalize(theta[next] - theta[curr], Turn(numRings))
           r == curr[1] * stepSize(config)
       IN [cmd |-> "A", rx |-> r, ry |-> r, rotation |-> 0, largeArc |-> 0,
           sweep |-> IF dTheta > 0 THEN 1 ELSE 0, pt |-> toFixed2(xy[next])]

\* while (true) { ... } of one segment (lines 352-380)
RECURSIVE traceLoop(_, _, _, _)
traceLoop(curr, next, segmentD, drawnEdges) ==
  LET drawn == drawnEdges \cup {getEdgeKey(curr, next)}
      seg == Append(segmentD, drawStep(curr, next))
      nextNeighbors == adjacency(next)
  IN IF Len(nextNeighbors) # 2
     THEN [segmentD |-> seg, drawnEdges |-> drawn]
     ELSE LET other == IF nextNeighbors[1] # curr THEN nextNeighbors[1]
                       ELSE nextNeighbors[2]
          IN traceLoop(next, other, seg, drawn)

\* js.forEach(j => neighbors.forEach(n => { ... })) from junction ji, neighbour ni on
\* (lines 341-383)
RECURSIVE traceAll(_, _, _, _, _)
traceAll(js, ji, ni, pathCommands, drawnEdges) ==
  IF ji > Len(js) THEN pathCommands
  ELSE LET j == js[ji]
           neighbors == adjacency(j)
       IN IF ni > Len(neighbors) THEN traceAll(js, ji + 1, 1, pathCommands, drawnEdges)
          ELSE IF getEdgeKey(j, neighbors[ni]) \in drawnEdges
               THEN traceAll(js, ji, ni + 1, pathCommands, drawnEdges)
               ELSE LET t == traceLoop(j, neighbors[ni],
                                       <<[cmd |-> "M", pt |-> toFixed2(xy[j])]>>,
                                       drawnEdges)
                    IN traceAll(js, ji, ni + 1, pathCommands \o t.segmentD, t.drawnEdges)

\* pathD = pathCommands.join(" ") (lines 283-385)
Stitch ==
  /\ pc = "stitch"
  /\ pathD' = traceAll(junctions, 1, 1, <<>>, {})
  /\ pc' = "solution"
  /\ UNCHANGED <<oracle, kept, lastWeighted, config, seedValue, numRings, nodes, visited,
                 parent, theta, xy, active, edges, entryDirMap, startNode, solutionD,
                 result>>
  /\ UNCHANGED nonMazeVars

-----------------------------------------------------------------------------
(* 5. Solution Path *)

\* the walk that stops one node before the root
RECURSIVE solutionFromShort(_, _)
solutionFromShort(curr, cmds) ==
  IF parent[curr] = NoNode \/ parent[parent[curr]] = NoNode THEN cmds
  ELSE solutionFromShort(parent[curr], Append(cmds, drawStep(curr, parent[curr])))

\* while (curr.parent) { ... } (lines 393-406)
RECURSIVE solutionFrom(_, _)
solutionFrom(curr, solutionCommands) ==
  IF parent[curr] = NoNode THEN solutionCommands
  ELSE solutionFrom(parent[curr], Append(solutionCommands, drawStep(curr, parent[curr])))

solutionCommands == solutionFrom(startNode, <<[cmd |-> "M", pt |-> toFixed2(xy[startNode])]>>)

\* the MazeNode objects of the returned nodes array
nodeObjects ==
  [i \in 1..Len(nodes) |->
    [id |-> nodes[i], r |-> nodes[i][1], theta |-> theta[nodes[i]], xy |-> xy[nodes[i]],
     visited |-> visited[nodes[i]], parent |-> parent[nodes[i]]]]

\* the returned MazeData (lines 410-417)
MazeData(sol) ==
  [kind |-> "MazeData", config |-> config, pathD |-> pathD, solutionD |-> sol, startPoint |-> xy[startNode],
   endPoint |-> [rad |-> 0, ang |-> 0], nodes |-> nodeObjects]

\* lines 387-417
Return ==
  /\ pc = "solution"
  /\ solutionD' = solutionCommands
  /\ result' = MazeData(solutionCommands)
  /\ \E keep \in (IF oracle \/ kept.kept THEN {FALSE} ELSE BOOLEAN) :
       kept' = IF keep
               THEN [kept |-> TRUE, config |-> config, data |-> MazeData(solutionCommands),
                     later |-> 0]
               ELSE kept
  /\ pc' = "done"
  /\ UNCHANGED <<oracle, lastWeighted, config, seedValue, numRings, nodes, visited, parent,
                 theta, xy, active, edges, entryDirMap, startNode, pathD>>
  /\ UNCHANGED nonMazeVars

-----------------------------------------------------------------------------
(* svgPathToClipperPaths and arcToPoints (src/lib/clipperUtils.ts)          *)
(*                                                                         *)
(* The path string is the sequence of its tokens, separated by white       *)
(* space: a letter of [MmLlHhVvAaZz], a decimal number, a word of letters  *)
(* outside that class (C, Q, ...) or a text that is neither (1-2).  A      *)
(* JavaScript number is a record: a value, NaN or undefined.  A value is   *)
(* counted in ten-thousandths (four decimals), so that 1 is Unit, the      *)
(* product x * CLIPPER_SCALE of a four-decimal x is exact and Math.round   *)
(* is what makes it a multiple of Unit.                                    *)

CLIPPER_SCALE == 1000

\* the number 1
Unit == 10000

Num(n) == [k |-> "num", v |-> n]

NaN == [k |-> "nan", v |-> 0]

Undefined == [k |-> "undefined", v |-> 0]

CommandToken(c) == [t |-> "cmd", c |-> c, v |-> 0]

NumberToken(n) == [t |-> "num", c |-> "", v |-> n]

\* letters that commandRegex does not match
WordToken(c) == [t |-> "word", c |-> c, v |-> 0]

\* text that is no letter and that Number() does not read
BadNumberToken(c) == [t |-> "bad", c |-> c, v |-> 0]

\* a number too large to be counted in ten-thousandths: 2^42 and v
\* ten-thousandths.  Such numbers are met in the texts of clipperPathsToSvgPath
\* only, which writes M, L and Z: they are read and rounded, never added,
\* compared or given to an arc
Far(v) == [k |-> "far", v |-> v]

\* the same for a product x * CLIPPER_SCALE: 2^42 * 1000 and v ten-thousandths
FarScaled(v) == [k |-> "farScaled", v |-> v]

FarToken(v) == [t |-> "far", c |-> "", v |-> v]

\* Number(text) of .map(Number), line 128
Number(tok) ==
  CASE tok.t = "num" -> Num(tok.v)
    [] tok.t = "far" -> Far(tok.v)
    [] OTHER -> NaN

\* a + b of JavaScript numbers
add(a, b) == IF a.k = "num" /\ b.k = "num" THEN Num(a.v + b.v) ELSE NaN

\* a === b
strictEquals(a, b) == a.k = b.k /\ a.k # "nan" /\ a.v = b.v

\* x * CLIPPER_SCALE
scale(x) == IF x.k = "num" THEN Num(x.v * CLIPPER_SCALE) ELSE NaN

\* the thousandths d over 2^42, of 0 .. 62, for which the floating-point product
\* (2^42 + d / 1000) * 1000 is 2^42 * 1000 + d + 0.5: the double nearest to
\* 2^42 + d / 1000 lies up to 2^-11 from it, and the doubles from 2^51 on are
\* the multiples of a half.  For the other d of 0 .. 62 the product is
\* 2^42 * 1000 + d or half a unit less.
FarRoundsUp == 21..30

\* Math.round(x * CLIPPER_SCALE) of x = 2^42 + v ten-thousandths, v a count of
\* thousandths: what it is over 2^42 * 1000
farRounded(v) ==
  LET d == v \div (Unit \div CLIPPER_SCALE)
  IN (IF d \in FarRoundsUp THEN d + 1 ELSE d) * Unit

\* Math.round(x * CLIPPER_SCALE): the nearest whole unit, a half goes up.  The
\* floating-point product of a number that ends in ...5 can fall on either
\* side of the half; the numbers of Chunks are not of that kind.
roundScaled(x) ==
  CASE x.k = "num" -> Num(((scale(x).v + Unit \div 2) \div Unit) * Unit)
    [] x.k = "far" -> FarScaled(farRounded(x.v))
    [] OTHER -> NaN

\* { X: Math.round(x * CLIPPER_SCALE), Y: Math.round(y * CLIPPER_SCALE) }
roundedPoint(x, y) == [X |-> roundScaled(x), Y |-> roundScaled(y)]

\* the points of an arc before its last one (lines 97-104, i < numSegments):
\* rounded whole numbers that are not computed here
ArcInterior == [X |-> [k |-> "arc", v |-> 0], Y |-> [k |-> "arc", v |-> 0]]

\* lines 26-107
arcToPoints(sX, sY, rx, ry, xAxisRotation, largeArcFlag, sweepFlag, endX, endY) ==
  IF \/ strictEquals(sX, endX) /\ strictEquals(sY, endY)
     \/ strictEquals(rx, Num(0))
     \/ strictEquals(ry, Num(0))
  THEN <<[X |-> scale(endX), Y |-> scale(endY)]>>
  ELSE IF \A a \in {sX, sY, rx, ry, xAxisRotation, endX, endY} : a.k = "num"
       THEN <<ArcInterior, roundedPoint(endX, endY)>>
       ELSE <<>>  \* numSegments is NaN and the loop of line 97 does not run

\* args[i] of JavaScript, i counted from 0
argAt(args, i) == IF i < Len(args) THEN args[i + 1] ELSE Undefined

RECURSIVE findCommand(_, _)
\* the index of the first command letter at or after i, 0 when there is none
findCommand(s, i) ==
  IF i > Len(s) THEN 0
  ELSE IF s[i].t = "cmd" THEN i
  ELSE findCommand(s, i + 1)

\* the index after the last token of the match that starts at command ci
matchEnd(s, ci) ==
  LET k == findCommand(s, ci + 1) IN IF k = 0 THEN Len(s) + 1 ELSE k

\* lines 127-128
argsOf(s, ci) == [j \in 1..(matchEnd(s, ci) - ci - 1) |-> Number(s[ci + j])]

locals == [paths |-> paths, currentPath |-> currentPath, currentX |-> currentX,
           currentY |-> currentY, startX |-> startX, startY |-> startY]

RECURSIVE lineLoop(_, _, _, _)
\* the loops of lines 142-146, 159-163, 167-171 and 175-179
lineLoop(args, i, relative, st) ==
  IF i >= Len(args) THEN st
  ELSE LET x == IF relative THEN add(st.currentX, argAt(args, i)) ELSE argAt(args, i)
           y == IF relative THEN add(st.currentY, argAt(args, i + 1))
                ELSE argAt(args, i + 1)
       IN lineLoop(args, i + 2, relative,
                   [st EXCEPT !.currentX = x, !.currentY = y,
                              !.currentPath = Append(@, roundedPoint(x, y))])

\* M and m read as L and l: no new sequence is begun
moveToAsLine(args, relative, st) == lineLoop(args, 0, relative, st)

\* cases 'M' and 'm', lines 131-164
moveTo(args, relative, st) ==
  LET x == IF relative THEN add(st.currentX, argAt(args, 0)) ELSE argAt(args, 0)
      y == IF relative THEN add(st.currentY, argAt(args, 1)) ELSE argAt(args, 1)
  IN lineLoop(args, 2, relative,
              [paths |-> IF Len(st.currentPath) > 0
                         THEN Append(st.paths, st.currentPath) ELSE st.paths,
               currentPath |-> <<roundedPoint(x, y)>>,
               currentX |-> x, currentY |-> y, startX |-> x, startY |-> y])

RECURSIVE horizontalLoop(_, _, _, _)
\* cases 'H' and 'h', lines 182-194
horizontalLoop(args, i, relative, st) ==
  IF i >= Len(args) THEN st
  ELSE LET x == IF relative THEN add(st.currentX, argAt(args, i)) ELSE argAt(args, i)
       IN horizontalLoop(args, i + 1, relative,
                         [st EXCEPT !.currentX = x,
                                    !.currentPath = Append(@, roundedPoint(x, st.currentY))])

RECURSIVE verticalLoop(_, _, _, _)
\* cases 'V' and 'v', lines 196-208
verticalLoop(args, i, relative, st) ==
  IF i >= Len(args) THEN st
  ELSE LET y == IF relative THEN add(st.currentY, argAt(args, i)) ELSE argAt(args, i)
       IN verticalLoop(args, i + 1, relative,
                       [st EXCEPT !.currentY = y,
                                  !.currentPath = Append(@, roundedPoint(st.currentX, y))])

RECURSIVE arcLoop(_, _, _, _)
\* cases 'A' and 'a', lines 210-240
arcLoop(args, i, relative, st) ==
  IF i >= Len(args) THEN st
  ELSE LET endX == IF relative THEN add(st.currentX, argAt(args, i + 5))
                   ELSE argAt(args, i + 5)
           endY == IF relative THEN add(st.currentY, argAt(args, i + 6))
                   ELSE argAt(args, i + 6)
           arcPoints == arcToPoints(st.currentX, st.currentY,
                                    argAt(args, i), argAt(args, i + 1), argAt(args, i + 2),
                                    argAt(args, i + 3), argAt(args, i + 4), endX, endY)
       IN arcLoop(args, i + 7, relative,
                  [st EXCEPT !.currentX = endX, !.currentY = endY,
                             !.currentPath = @ \o arcPoints])

\* cases 'Z' and 'z', lines 242-249
closePath(st) ==
  [st EXCEPT !.currentX = st.startX, !.currentY = st.startY,
             !.currentPath = IF Len(@) > 0
                             THEN Append(@, roundedPoint(st.startX, st.startY))
                             ELSE @]

\* the switch of lines 130-250
switch(cmd, args, st) ==
  CASE cmd = "M" -> moveTo(args, FALSE, st)
    [] cmd = "m" -> moveTo(args, TRUE, st)
    [] cmd = "L" -> lineLoop(args, 0, FALSE, st)
    [] cmd = "l" -> lineLoop(args, 0, TRUE, st)
    [] cmd = "H" -> horizontalLoop(args, 0, FALSE, st)
    [] cmd = "h" -> horizontalLoop(args, 0, TRUE, st)
    [] cmd = "V" -> verticalLoop(args, 0, FALSE, st)
    [] cmd = "v" -> verticalLoop(args, 0, TRUE, st)
    [] cmd = "A" -> arcLoop(args, 0, FALSE, st)
    [] cmd = "a" -> arcLoop(args, 0, TRUE, st)
    [] cmd \in {"Z", "z"} -> closePath(st)

\* the path strings given to the function: up to MaxChunks pieces
MaxChunks == 2

Tokens(letter, numbers) ==
  <<CommandToken(letter)>> \o [i \in 1..Len(numbers) |-> NumberToken(numbers[i])]

Chunks ==
  { Tokens("M", <<0, 0>>),
    Tokens("M", <<10000, 20000>>),
    Tokens("M", <<10000>>),
    Tokens("M", <<>>),
    Tokens("m", <<10000, 10000>>),
    Tokens("L", <<30000, 0>>),
    Tokens("L", <<12346>>),
    Tokens("l", <<6, -6>>),
    Tokens("H", <<20000>>),
    Tokens("h", <<10000>>),
    Tokens("V", <<20000>>),
    Tokens("v", <<10000>>),
    Tokens("A", <<10000, 10000, 0, 0, 10000, 20000, 0>>),
    Tokens("A", <<0, 10000, 0, 0, 10000, 12346, 0>>),
    Tokens("A", <<10000, 10000, 0>>),
    Tokens("a", <<10000, 10000, 0, 0, 10000, 10000, 10000>>),
    Tokens("Z", <<>>),
    Tokens("z", <<>>),
    <<WordToken("C")>> \o [i \in 1..6 |-> NumberToken(i * 10000)],
    <<WordToken("Q")>>,
    <<CommandToken("L"), BadNumberToken("1-2"), NumberToken(0)>> }

RECURSIVE PathStrings(_)
PathStrings(n) ==
  IF n = 0 THEN {<<>>}
  ELSE PathStrings(n - 1) \cup {s \o c : s \in PathStrings(n - 1), c \in Chunks}

ParseInputs == PathStrings(MaxChunks)

NotParsed == [kind |-> "none"]

\* no call of svgPathToClipperPaths
ParserIdle ==
  /\ ppc = "idle"
  /\ parsePathD = <<>>
  /\ lastIndex = 1
  /\ paths = <<>>
  /\ currentPath = <<>>
  /\ currentX = Num(0)
  /\ currentY = Num(0)
  /\ startX = Num(0)
  /\ startY = Num(0)
  /\ parsed = NotParsed

\* the call, lines 113-123
ParseStart(s) ==
  /\ ppc = "scan"
  /\ parsePathD = s
  /\ lastIndex = 1
  /\ paths = <<>>
  /\ currentPath = <<>>
  /\ currentX = Num(0)
  /\ currentY = Num(0)
  /\ startX = Num(0)
  /\ startY = Num(0)
  /\ parsed = NotParsed

\* one turn of the loop of line 125: the next match and its case
ParseCommand ==
  /\ ppc = "scan"
  /\ findCommand(parsePathD, lastIndex) # 0
  /\ LET ci == findCommand(parsePathD, lastIndex)
         st == switch(parsePathD[ci].c, argsOf(parsePathD, ci), locals)
     IN /\ lastIndex' = matchEnd(parsePathD, ci)
        /\ paths' = st.paths
        /\ currentPath' = st.currentPath
        /\ currentX' = st.currentX
        /\ currentY' = st.currentY
        /\ startX' = st.startX
        /\ startY' = st.startY
  /\ UNCHANGED <<ppc, parsePathD, parsed>>
  /\ UNCHANGED nonParseVars

\* exec returns null: lines 253-257
ParseReturn ==
  /\ ppc = "scan"
  /\ findCommand(parsePathD, lastIndex) = 0
  /\ paths' = IF Len(currentPath) > 0 THEN Append(paths, currentPath) ELSE paths
  /\ parsed' = [kind |-> "Paths", paths |-> paths']
  /\ ppc' = "returned"
  /\ UNCHANGED <<parsePathD, lastIndex, currentPath, currentX, currentY, startX, startY>>
  /\ UNCHANGED nonParseVars
-----------------------------------------------------------------------------
(* clipperPathsToSvgPath (src/lib/clipperUtils.ts)                         *)

\* X / CLIPPER_SCALE of a whole number X
unscale(X) ==
  CASE X.k = "num" -> Num(X.v \div CLIPPER_SCALE)
    [] X.k = "farScaled" -> Far(X.v \div CLIPPER_SCALE)
    [] OTHER -> NaN

\* the hundredth nearest to v ten-thousandths, a half goes away from zero
nearestHundredth(v) ==
  LET magnitude == IF v < 0 THEN 0 - v ELSE v
      hundredths == (magnitude + Unit \div 200) \div (Unit \div 100)
  IN (IF v < 0 THEN 0 - hundredths ELSE hundredths) * (Unit \div 100)

\* the thousandth nearest to v ten-thousandths, a half goes away from zero
nearestThousandth(v) ==
  LET magnitude == IF v < 0 THEN 0 - v ELSE v
      thousandths == (magnitude + Unit \div 2000) \div (Unit \div 1000)
  IN (IF v < 0 THEN 0 - thousandths ELSE thousandths) * (Unit \div 1000)

\* x.toFixed(2), as the token it is read as
toFixedTwo(x) ==
  CASE x.k = "num" -> NumberToken(nearestHundredth(x.v))
    [] x.k = "far" -> FarToken(nearestHundredth(x.v))
    [] OTHER -> BadNumberToken("NaN")

\* x.toFixed(3), as the token it is read as.  The double x / 1000 of a whole x
\* up to 2^42 * 1000 + 62 lies less than half a thousandth from the quotient,
\* so that the text is the quotient
toFixed3(x) ==
  CASE x.k = "num" -> NumberToken(nearestThousandth(x.v))
    [] x.k = "far" -> FarToken(nearestThousandth(x.v))
    [] OTHER -> BadNumberToken("NaN")

\* `${(p.X / CLIPPER_SCALE).toFixed(3)} ${(p.Y / CLIPPER_SCALE).toFixed(3)} `
pointText(p) == <<toFixed3(unscale(p.X)), toFixed3(unscale(p.Y))>>

RECURSIVE lineTexts(_, _)
\* the loop of lines 329-331, from point i on
lineTexts(path, i) ==
  IF i > Len(path) THEN <<>>
  ELSE <<CommandToken("L")>> \o pointText(path[i]) \o lineTexts(path, i + 1)

RECURSIVE pathTexts(_, _)
\* the loop of lines 325-333, from path i on
pathTexts(ps, i) ==
  IF i > Len(ps) THEN <<>>
  ELSE (IF Len(ps[i]) = 0 THEN <<>>
        ELSE <<CommandToken("M")>> \o pointText(ps[i][1]) \o lineTexts(ps[i], 2)
             \o <<CommandToken("Z")>>)
       \o pathTexts(ps, i + 1)

\* lines 323-335; d.trim() takes no token away
clipperPathsToSvgPath(ps) == pathTexts(ps, 1)

\* the lists given to the function: up to MaxRoundTripPaths sequences of up to
\* MaxRoundTripPoints points
MaxRoundTripPaths == 2

MaxRoundTripPoints == 2

\* a point of whole coordinates
ClipperPoint(X, Y) == [X |-> Num(X * Unit), Y |-> Num(Y * Unit)]

\* 2^42 * 1000 + 21 and 1
FarPoint == [X |-> FarScaled(21 * Unit), Y |-> Num(1 * Unit)]

RoundTripPoints == {ClipperPoint(0, 0), ClipperPoint(-1501, 200000), FarPoint}

RECURSIVE PointSequences(_)
PointSequences(n) ==
  IF n = 0 THEN {<<>>}
  ELSE PointSequences(n - 1)
       \cup {Append(s, p) : s \in PointSequences(n - 1), p \in RoundTripPoints}

RECURSIVE PathLists(_)
PathLists(n) ==
  IF n = 0 THEN {<<>>}
  ELSE PathLists(n - 1)
       \cup {Append(l, s) : l \in PathLists(n - 1), s \in PointSequences(MaxRoundTripPoints)}

RoundTripInputs == PathLists(MaxRoundTripPaths)

\* svgPathToClipperPaths(clipperPathsToSvgPath(ps)): the call of the inner
\* function and the call of the outer one, lines 113-123
RoundTripStart(ps) ==
  /\ clipperPaths = ps
  /\ ParseStart(clipperPathsToSvgPath(ps))
-----------------------------------------------------------------------------
(* generateDXF and addPathToDXF (src/components/MazeViewer.tsx)             *)
(*                                                                         *)
(* The document is the sequence of the pairs written by add(code, value):  *)
(* a value is a text, or a number with the count of decimals it is         *)
(* written with (NoDecimals: as many as the number has).  A path string    *)
(* is its tokens, as for svgPathToClipperPaths.                            *)

NoDecimals == -1

\* add(code, value) of a text, lines 219-221
addText(code, value) == [code |-> code, text |-> value, number |-> 0, decimals |-> NoDecimals]

\* add(code, value) of a number, in units of 1/Unit
addNumber(code, n) == [code |-> code, text |-> "#", number |-> n, decimals |-> NoDecimals]

\* add(code, n.toFixed(6))
addFixed6(code, n) == [code |-> code, text |-> "#", number |-> n, decimals |-> 6]

\* cmd[0].toUpperCase(), line 311
toUpperCase(c) ==
  CASE c \in {"M", "m"} -> "M"
    [] c \in {"L", "l"} -> "L"
    [] c \in {"Z", "z"} -> "Z"
    [] c \in {"H", "h"} -> "H"
    [] c \in {"V", "v"} -> "V"
    [] c \in {"A", "a"} -> "A"
    [] OTHER -> c

\* a token that /[MLZ]/i matches
isMLZ(tok) == tok.t = "cmd" /\ toUpperCase(tok.c) \in {"M", "L", "Z"}

RECURSIVE findMLZ(_, _)
\* the index of the first token of [MLZ] at or after i, 0 when there is none
findMLZ(s, i) ==
  IF i > Len(s) THEN 0
  ELSE IF isMLZ(s[i]) THEN i
  ELSE findMLZ(s, i + 1)

\* the index after the last token of the command that starts at ci
commandEnd(s, ci) ==
  LET k == findMLZ(s, ci + 1) IN IF k = 0 THEN Len(s) + 1 ELSE k

\* coords.split(/[\s,]+/).filter(s => s.length > 0).map(Number), line 315
numsOf(s, ci) == [j \in 1..(commandEnd(s, ci) - ci - 1) |-> Number(s[ci + j])]

\* isNaN(x)
isNaN(x) == x.k # "num"

RECURSIVE pairsOf(_, _)
\* the loop of lines 316-320
pairsOf(nums, i) ==
  IF i >= Len(nums) THEN <<>>
  ELSE (IF ~isNaN(argAt(nums, i)) /\ ~isNaN(argAt(nums, i + 1))
        THEN <<[x |-> argAt(nums, i).v, y |-> argAt(nums, i + 1).v]>>
        ELSE <<>>) \o pairsOf(nums, i + 2)

\* a POLYLINE without its VERTEX records
noVertices(points, i, layer) == <<>>

RECURSIVE vertices(_, _, _)
\* lines 329-335 and 351-357
vertices(points, i, layer) ==
  IF i > Len(points) THEN <<>>
  ELSE <<addText(0, "VERTEX"), addText(8, layer), addFixed6(10, points[i].x),
         addFixed6(20, points[i].y), addNumber(30, 0)>> \o vertices(points, i + 1, layer)

\* lines 324-338 (closed = 1) and 346-360 (closed = 0)
polyline(points, layer, closed) ==
  <<addText(0, "POLYLINE"), addText(8, layer), addNumber(66, 1 * Unit),
    addNumber(70, closed * Unit)>>
  \o vertices(points, 1, layer)
  \o <<addText(0, "SEQEND"), addText(8, layer)>>

RECURSIVE commandLoop(_, _, _, _)
\* lines 310-361: the commands from token i on, and the rest after the loop
commandLoop(s, i, points, layer) ==
  LET ci == findMLZ(s, i)
  IN IF ci = 0
     THEN IF Len(points) >= 2 THEN polyline(points, layer, 0) ELSE <<>>
     ELSE IF toUpperCase(s[ci].c) \in {"M", "L"}
          THEN commandLoop(s, commandEnd(s, ci), points \o pairsOf(numsOf(s, ci), 0), layer)
          ELSE (IF Len(points) >= 2 THEN polyline(points, layer, 1) ELSE <<>>)
               \o commandLoop(s, commandEnd(s, ci), <<>>, layer)

\* lines 304-362: what the call adds to dxf
addPathToDXF(s, layer) == IF Len(s) = 0 THEN <<>> ELSE commandLoop(s, 1, <<>>, layer)

\* lines 223-236
headerSection(diameter) ==
  <<addText(0, "SECTION"), addText(2, "HEADER"), addText(9, "$ACADVER"),
    addText(1, "AC1009"), addText(9, "$INSUNITS"), addNumber(70, 4 * Unit),
    addText(9, "$EXTMIN"), addNumber(10, (0 - diameter * Unit) \div 2),
    addNumber(20, (0 - diameter * Unit) \div 2),
    addText(9, "$EXTMAX"), addNumber(10, (diameter * Unit) \div 2),
    addNumber(20, (diameter * Unit) \div 2), addText(0, "ENDSEC")>>

\* a LAYER entry that is written under the name of layer 0
layerEntryUnnamed(name, colour) ==
  <<addText(0, "LAYER"), addText(2, "0"), addNumber(70, 0), addNumber(62, colour * Unit),
    addText(6, "CONTINUOUS")>>

\* one LAYER entry, as lines 261-265
layerEntry(name, colour) ==
  <<addText(0, "LAYER"), addText(2, name), addNumber(70, 0), addNumber(62, colour * Unit),
    addText(6, "CONTINUOUS")>>

NoWedge == [wedge |-> FALSE, wedgePath |-> <<>>, screwHolePath |-> <<>>]

\* lines 238-297
tablesSection(wedgeData) ==
  <<addText(0, "SECTION"), addText(2, "TABLES"),
    addText(0, "TABLE"), addText(2, "LTYPE"), addNumber(70, 1 * Unit),
    addText(0, "LTYPE"), addText(2, "CONTINUOUS"), addNumber(70, 0),
    addText(3, "Solid line"), addNumber(72, 65 * Unit), addNumber(73, 0),
    addNumber(40, 0), addText(0, "ENDTAB"),
    addText(0, "TABLE"), addText(2, "LAYER"),
    addNumber(70, (IF wedgeData.wedge THEN 5 ELSE 3) * Unit)>>
  \o layerEntry("0", 7) \o layerEntry("CORRIDORS", 1) \o layerEntry("BOUNDARY", 3)
  \o (IF wedgeData.wedge
      THEN layerEntry("WEDGE_CUT", 1) \o layerEntry("WEDGE_HOLE", 2)
      ELSE <<>>)
  \o <<addText(0, "ENDTAB"), addText(0, "ENDSEC")>>

\* the calls of lines 364-373, in order
pathCalls(args) ==
  <<[pathD |-> args.outlines.corridors, layer |-> "CORRIDORS"],
    [pathD |-> args.outlines.boundary, layer |-> "BOUNDARY"],
    [pathD |-> args.outlines.centerHole, layer |-> "BOUNDARY"],
    [pathD |-> args.outlines.entryHole, layer |-> "BOUNDARY"]>>
  \o (IF args.wedgeData.wedge
      THEN <<[pathD |-> args.wedgeData.wedgePath, layer |-> "WEDGE_CUT"],
             [pathD |-> args.wedgeData.screwHolePath, layer |-> "WEDGE_HOLE"]>>
      ELSE <<>>)

\* the path strings given as outlines.corridors: up to MaxDxfChunks pieces
MaxDxfChunks == 3

DxfChunks ==
  { Tokens("M", <<0, 0>>),
    Tokens("M", <<50000, 0, 50000, 12500>>),
    Tokens("L", <<10000, 0>>),
    Tokens("L", <<10000, 10000, 0, 10000>>),
    Tokens("Z", <<>>),
    <<CommandToken("L"), BadNumberToken("1-2"), NumberToken(0)>> }

RECURSIVE DxfPathStrings(_)
DxfPathStrings(n) ==
  IF n = 0 THEN {<<>>}
  ELSE DxfPathStrings(n - 1) \cup {s \o c : s \in DxfPathStrings(n - 1), c \in DxfChunks}

\* a closed contour of four points, as clipperPathsToSvgPath writes one
ClosedContour ==
  Tokens("M", <<-10000, -10000>>) \o Tokens("L", <<10000, -10000>>)
  \o Tokens("L", <<10000, 10000>>) \o Tokens("L", <<-10000, 10000>>) \o Tokens("Z", <<>>)

DxfInputs ==
  [outlines : [corridors : DxfPathStrings(MaxDxfChunks), boundary : {ClosedContour},
               centerHole : {ClosedContour}, entryHole : {<<>>, ClosedContour}],
   diameter : {290},
   wedgeData : {NoWedge, [wedge |-> TRUE, wedgePath |-> ClosedContour,
                          screwHolePath |-> <<>>]}]

NoDxfArgs == [outlines |-> <<>>, diameter |-> 0, wedgeData |-> NoWedge]

\* no call of generateDXF
DxfIdle ==
  /\ dxfPc = "idle"
  /\ dxfArgs = NoDxfArgs
  /\ dxf = <<>>
  /\ dxfCalls = <<>>
  /\ dxfContent = <<>>

\* the call, lines 211-216
DxfStart(args) ==
  /\ dxfPc = "header"
  /\ dxfArgs = args
  /\ dxf = <<>>
  /\ dxfCalls = <<>>
  /\ dxfContent = <<>>

\* lines 223-236
WriteHeader ==
  /\ dxfPc = "header"
  /\ dxf' = dxf \o headerSection(dxfArgs.diameter)
  /\ dxfPc' = "tables"
  /\ UNCHANGED <<dxfArgs, dxfCalls, dxfContent>>
  /\ UNCHANGED nonDxfVars

\* lines 238-297
WriteTables ==
  /\ dxfPc = "tables"
  /\ dxf' = dxf \o tablesSection(dxfArgs.wedgeData)
  /\ dxfPc' = "entities"
  /\ UNCHANGED <<dxfArgs, dxfCalls, dxfContent>>
  /\ UNCHANGED nonDxfVars

\* lines 299-301
BeginEntities ==
  /\ dxfPc = "entities"
  /\ dxf' = dxf \o <<addText(0, "SECTION"), addText(2, "ENTITIES")>>
  /\ dxfCalls' = pathCalls(dxfArgs)
  /\ dxfPc' = "paths"
  /\ UNCHANGED <<dxfArgs, dxfContent>>
  /\ UNCHANGED nonDxfVars

\* one call of addPathToDXF, lines 364-373
AddPath ==
  /\ dxfPc = "paths"
  /\ Len(dxfCalls) > 0
  /\ dxf' = dxf \o addPathToDXF(Head(dxfCalls).pathD, Head(dxfCalls).layer)
  /\ dxfCalls' = Tail(dxfCalls)
  /\ UNCHANGED <<dxfPc, dxfArgs, dxfContent>>
  /\ UNCHANGED nonDxfVars

\* lines 375-380
DxfReturn ==
  /\ dxfPc = "paths"
  /\ Len(dxfCalls) = 0
  /\ dxf' = dxf \o <<addText(0, "ENDSEC"), addText(0, "EOF")>>
  /\ dxfContent' = dxf'
  /\ dxfPc' = "returned"
  /\ UNCHANGED <<dxfArgs, dxfCalls>>
  /\ UNCHANGED nonDxfVars
-----------------------------------------------------------------------------
(* offsetPaths, unionPolygons, createCircle and createMazeOutline           *)
(* (src/lib/clipperUtils.ts)                                               *)
(*                                                                         *)
(* What Clipper computes is not computed here: the result of               *)
(* ClipperOffset.Execute, of Clipper.Execute and the points of a circle    *)
(* are records that name the operation and what it was given.              *)

\* the paths given to co.AddPath by the loop of lines 272-276
addedPaths(ps) == SelectSeq(ps, LAMBDA path : Len(path) >= 2)

\* lines 264-282
offsetPaths(ps, distance, joinType) ==
  [clipper |-> "ClipperOffset.Execute",
   added |-> addedPaths(ps),
   joinType |-> CASE joinType = "round" -> "jtRound"
                  [] joinType = "square" -> "jtSquare"
                  [] OTHER -> "jtMiter",
   endType |-> "etOpenRound",
   delta |-> distance * CLIPPER_SCALE]

\* lines 302-318: polygons itself when it has fewer than two paths, their union otherwise
unionPolygons(polygons) ==
  [clipper |-> "Clipper.Execute", clipType |-> "ctUnion", subject |-> polygons,
   fillType |-> "pftNonZero"]

\* lines 287-297
createCircle(cx, cy, radius, segments) ==
  [circle |-> TRUE, cx |-> cx, cy |-> cy, radius |-> radius, segments |-> segments]

NoPosition == [given |-> FALSE, x |-> 0, y |-> 0]

\* the path strings given as mazePathD: up to MaxOutlineChunks pieces
MaxOutlineChunks == 2

EntrancePath == Tokens("M", <<0, 0>>) \o Tokens("L", <<30000, 0>>)

OutlineInputs ==
  [mazePathD : PathStrings(MaxOutlineChunks), corridorWidth : {14 * Unit},
   outerRadius : {145 * Unit}, holeRadius : {12 * Unit},
   entrancePathD : {<<>>}, joinType : {"round"}, entryHolePosition : {NoPosition}]
  \cup
  [mazePathD : PathStrings(MaxOutlineChunks), corridorWidth : {14 * Unit},
   outerRadius : {145 * Unit}, holeRadius : {12 * Unit},
   entrancePathD : {EntrancePath}, joinType : {"miter"},
   entryHolePosition : {[given |-> TRUE, x |-> 0, y |-> -125 * Unit]}]

NoOutlineArgs == [mazePathD |-> <<>>]

NoOutlines == [kind |-> "none"]

\* no call of createMazeOutline
OutlineIdle ==
  /\ olPc = "idle"
  /\ olArgs = NoOutlineArgs
  /\ allPaths = <<>>
  /\ offsetted = <<>>
  /\ outlines = NoOutlines

\* a call of svgPathToClipperPaths from inside another function
ParseBegin(s) ==
  /\ ppc' = "scan"
  /\ parsePathD' = s
  /\ lastIndex' = 1
  /\ paths' = <<>>
  /\ currentPath' = <<>>
  /\ currentX' = Num(0)
  /\ currentY' = Num(0)
  /\ startX' = Num(0)
  /\ startY' = Num(0)
  /\ parsed' = NotParsed

\* the call and line 373 up to the first match
OutlineStart(args) ==
  /\ olPc = "mazePaths"
  /\ olArgs = args
  /\ allPaths = <<>>
  /\ offsetted = <<>>
  /\ outlines = NoOutlines
  /\ ParseStart(args.mazePathD)

\* line 373 returns; line 374 calls or gives []
MazePathsParsed ==
  /\ olPc = "mazePaths"
  /\ ppc = "returned"
  /\ allPaths' = parsed.paths
  /\ IF Len(olArgs.entrancePathD) > 0
     THEN /\ ParseBegin(olArgs.entrancePathD)
          /\ olPc' = "entrancePaths"
     ELSE /\ olPc' = "offset"
          /\ UNCHANGED parseVars
  /\ UNCHANGED <<olArgs, offsetted, outlines>>
  /\ UNCHANGED nonOutlineVars

\* line 374 returns; line 375
EntrancePathsParsed ==
  /\ olPc = "entrancePaths"
  /\ ppc = "returned"
  /\ allPaths' = allPaths \o parsed.paths
  /\ olPc' = "offset"
  /\ UNCHANGED <<olArgs, offsetted, outlines>>
  /\ UNCHANGED parseVars
  /\ UNCHANGED nonOutlineVars

\* lines 377-378
OffsetPaths ==
  /\ olPc = "offset"
  /\ offsetted' = offsetPaths(allPaths, olArgs.corridorWidth \div 2, olArgs.joinType)
  /\ olPc' = "union"
  /\ UNCHANGED <<olArgs, allPaths, outlines>>
  /\ UNCHANGED parseVars
  /\ UNCHANGED nonOutlineVars

\* lines 380-399
OutlineReturn ==
  /\ olPc = "union"
  /\ outlines' =
       [kind |-> "outlines",
        corridors |-> [clipperPathsToSvgPath |-> unionPolygons(offsetted)],
        boundary |-> [clipperPathsToSvgPath |-> <<createCircle(0, 0, olArgs.outerRadius, 128)>>],
        centerHole |-> [clipperPathsToSvgPath |-> <<createCircle(0, 0, olArgs.holeRadius, 64)>>],
        entryHole |-> IF olArgs.entryHolePosition.given
                      THEN [clipperPathsToSvgPath |->
                              <<createCircle(olArgs.entryHolePosition.x,
                                             olArgs.entryHolePosition.y,
                                             olArgs.holeRadius, 64)>>]
                      ELSE [clipperPathsToSvgPath |-> <<>>]]
  /\ olPc' = "returned"
  /\ UNCHANGED <<olArgs, allPaths, offsetted>>
  /\ UNCHANGED parseVars
  /\ UNCHANGED nonOutlineVars

-----------------------------------------------------------------------------
(* handleDownloadSVGOutlined and handleExportDXF (src/components/MazeViewer.tsx) *)
(*                                                                         *)
(* A handler is a closure of the render that created it: it reads the      *)
(* data of that render.  It gives up control once, at the await of the     *)
(* timer; the rest runs to its end without any other event in between.     *)
(* What createMazeOutline, generateEntryWedgePaths and generateDXF return  *)
(* is written as the call itself, the function with its arguments.         *)

NoData == [kind |-> "none"]

\* the configurations of the application, with the fields the exports read
ExportConfigs ==
  [diameter : {86}, wallWidth : {11}, corridorWidth : {14}, difficulty : {4},
   seed : {0}, cornerRounding : {TRUE}, holeRadius : {12}, showEntryWedge : {FALSE}]
  \cup
  [diameter : {86}, wallWidth : {11}, corridorWidth : {14}, difficulty : {4},
   seed : {1}, cornerRounding : {FALSE}, holeRadius : {12}, showEntryWedge : {TRUE}]

\* the downloads of one session
MaxFiles == 2

\* the data the handler closes over when the page has not been re-rendered
\* since the click
latestData == IF pc = "done" THEN result ELSE exData

\* const { config, pathD, solutionD } = data of the render that created the handler
handlerData == exData

\* the stages of the try block, in the order of the statements
skipSerialise(stage) ==
  CASE stage = "outline" -> "wedge"
    [] stage = "wedge" -> "download"
    [] stage = "serialise" -> "download"
    [] stage = "download" -> "downloaded"

nextStage(stage) ==
  CASE stage = "outline" -> "wedge"
    [] stage = "wedge" -> "serialise"
    [] stage = "serialise" -> "download"
    [] stage = "download" -> "downloaded"

\* setExportProgress(...) with 40 where the DXF handler has 60
progressAfterTypo(kind, stage) ==
  CASE stage = "outline" -> IF kind = "svg" THEN 70 ELSE 50
    [] stage = "wedge" -> IF kind = "svg" THEN 80 ELSE 40
    [] stage = "serialise" -> IF kind = "svg" THEN 95 ELSE 90
    [] stage = "download" -> 100

\* setExportProgress(...) at the end of a stage
progressAfter(kind, stage) ==
  CASE stage = "outline" -> IF kind = "svg" THEN 70 ELSE 50
    [] stage = "wedge" -> IF kind = "svg" THEN 80 ELSE 60
    [] stage = "serialise" -> IF kind = "svg" THEN 95 ELSE 90
    [] stage = "download" -> 100

\* const radius = config.diameter / 2, in units of 1/Unit
radius(cfg) == (cfg.diameter * Unit) \div 2

\* the call of createMazeOutline, lines 62-70 and 153-161
outlineCall(data) ==
  [createMazeOutline |->
     [mazePathD |-> data.pathD, entrancePathD |-> <<>>,
      corridorWidth |-> data.config.corridorWidth * Unit,
      outerRadius |-> radius(data.config),
      holeRadius |-> data.config.holeRadius * Unit,
      joinType |-> IF data.config.cornerRounding THEN "round" ELSE "miter",
      entryHolePosition |-> data.startPoint]]

\* lines 75-84 and 166-175
wedgeCall(data) ==
  IF data.config.showEntryWedge
  THEN [generateEntryWedgePaths |->
          [entryX |-> data.startPoint, outerRadius |-> radius(data.config),
           corridorWidth |-> data.config.corridorWidth * Unit,
           holeRadius |-> data.config.holeRadius * Unit]]
  ELSE NoWedge

\* svgContent (lines 89-117) and dxfContent (line 182)
serialise(kind, data, outl, wedge) ==
  IF kind = "dxf"
  THEN [generateDXF |-> [outlines |-> outl, diameter |-> data.config.diameter,
                         wedgeData |-> wedge]]
  ELSE [svg |-> [width |-> data.config.diameter, height |-> data.config.diameter,
                 viewBox |-> data.config.diameter + 2 * 20,
                 outlines |-> outl, wedgeSections |-> wedge]]

\* link.download, lines 124 and 193
fileName(kind, cfg) ==
  [name |-> "orbital_maze_", diameter |-> cfg.diameter, seed |-> cfg.seed,
   ending |-> IF kind = "dxf" THEN "_cut.dxf" ELSE "_outlined.svg"]

\* no export is running and no file was downloaded
ExportIdle ==
  /\ exPc = "idle"
  /\ exKind = None
  /\ exData = NoData
  /\ isExporting = FALSE
  /\ exportProgress = 0
  /\ exOutlines = NoData
  /\ exWedge = NoWedge
  /\ content = NoData
  /\ files = <<>>
  /\ filesBefore = 0

\* the session has not ended and no handler is between two of its statements
eventLoopFree == exPc \in {"idle", "suspended"}

\* useEffect (App.tsx:43-47), regenerate and handleConfigChange: the call of
\* generateMaze; setMazeData follows its return
AppGenerate ==
  /\ eventLoopFree
  /\ \E cfg \in ExportConfigs : Generate(cfg)

\* a click on SVG Outlined or DXF: the handler up to its await (lines 51-55, 142-146)
ExportClick ==
  /\ exPc = "idle"
  /\ pc = "done"
  /\ ~isExporting
  /\ Len(files) < MaxFiles
  /\ \E kind \in {"svg", "dxf"} : exKind' = kind
  /\ exData' = result
  /\ isExporting' = TRUE
  /\ exportProgress' = 0
  /\ filesBefore' = Len(files)
  /\ exPc' = "suspended"
  /\ UNCHANGED <<exOutlines, exWedge, content, files>>
  /\ UNCHANGED nonExportVars

\* the timer fires: setExportProgress(20), lines 57-58 and 148-149
ExportResume ==
  /\ exPc = "suspended"
  /\ pc \in {"done", "threw"}
  /\ exportProgress' = 20
  /\ exPc' = "outline"
  /\ UNCHANGED <<exKind, exData, isExporting, exOutlines, exWedge, content, files,
                 filesBefore>>
  /\ UNCHANGED nonExportVars

\* lines 60-72 and 151-163
ExportOutline ==
  /\ exPc = "outline"
  /\ exOutlines' = outlineCall(handlerData)
  /\ exportProgress' = progressAfter(exKind, exPc)
  /\ exPc' = nextStage(exPc)
  /\ UNCHANGED <<exKind, exData, isExporting, exWedge, content, files, filesBefore>>
  /\ UNCHANGED nonExportVars

\* lines 74-86 and 165-177
ExportWedge ==
  /\ exPc = "wedge"
  /\ exWedge' = wedgeCall(handlerData)
  /\ exportProgress' = progressAfter(exKind, exPc)
  /\ exPc' = nextStage(exPc)
  /\ UNCHANGED <<exKind, exData, isExporting, exOutlines, content, files, filesBefore>>
  /\ UNCHANGED nonExportVars

\* lines 88-119 and 179-186
ExportSerialise ==
  /\ exPc = "serialise"
  /\ content' = serialise(exKind, handlerData, exOutlines, exWedge)
  /\ exportProgress' = progressAfter(exKind, exPc)
  /\ exPc' = nextStage(exPc)
  /\ UNCHANGED <<exKind, exData, isExporting, exOutlines, exWedge, files, filesBefore>>
  /\ UNCHANGED nonExportVars

\* lines 121-131 and 188-200: link.click() gives the file to the browser
ExportDownload ==
  /\ exPc = "download"
  /\ files' = Append(files, [name |-> fileName(exKind, handlerData.config),
                             content |-> content])
  /\ exportProgress' = progressAfter(exKind, exPc)
  /\ exPc' = nextStage(exPc)
  /\ UNCHANGED <<exKind, exData, isExporting, exOutlines, exWedge, content, filesBefore>>
  /\ UNCHANGED nonExportVars

\* a statement of a stage throws: catch, lines 133-135 and 202-204
ExportThrow ==
  /\ exPc \in {"outline", "wedge", "serialise"}
  /\ exPc' = "caught"
  /\ UNCHANGED <<exKind, exData, isExporting, exportProgress, exOutlines, exWedge, content,
                 files, filesBefore>>
  /\ UNCHANGED nonExportVars

\* finally, lines 136-139 and 205-208; the locals of the handler are gone
ExportFinally ==
  /\ exPc \in {"downloaded", "caught"}
  /\ isExporting' = FALSE
  /\ exportProgress' = 0
  /\ exPc' = "idle"
  /\ exKind' = None
  /\ exData' = NoData
  /\ exOutlines' = NoData
  /\ exWedge' = NoWedge
  /\ content' = NoData
  /\ UNCHANGED <<files, filesBefore>>
  /\ UNCHANGED nonExportVars

\* the page is closed while the handler waits for its timer (lines 55 and 146)
Abandon ==
  /\ exPc = "suspended"
  /\ pc \in {"done", "threw"}
  /\ exPc' = "abandoned"
  /\ UNCHANGED <<exKind, exData, isExporting, exportProgress, exOutlines, exWedge, content,
                 files, filesBefore>>
  /\ UNCHANGED nonExportVars

-----------------------------------------------------------------------------


(* pathD as the text svgPathToClipperPaths reads                           *)
(*                                                                         *)
(* x.toFixed(2) and y.toFixed(2) of a node are the hundredths nearest to   *)
(* rad * cos and rad * sin of its angle.  The cosines are those of the     *)
(* angles of a maze of two rings, seven decimals each; no coordinate of    *)
(* such a maze is nearer than a hundredth of a hundredth to a half one.    *)

\* the angles of the table: k counts 1/TableTurn of a full turn
TableTurn == Turn(2)

\* Math.cos(2 * Math.PI * k / TableTurn) * 10^7 for k = 0 .. TableTurn/4
CosTable ==
  <<
      10000000, 9997972, 9991890, 9981756, 9967573, 9949348, 9927089, 9900803,
      9870503, 9836199, 9797907, 9755641, 9709418, 9659258, 9605181, 9547209,
      9485364, 9419673, 9350162, 9276860, 9199794, 9118998, 9034504, 8946346,
      8854560, 8759183, 8660254, 8557813, 8451901, 8342561, 8229839, 8113778,
      7994428, 7871835, 7746050, 7617123, 7485107, 7350056, 7212024, 7071068,
      6927244, 6780610, 6631227, 6479154, 6324454, 6167189, 6007423, 5845220,
      5680647, 5513771, 5344658, 5173378, 5000000, 4824594, 4647232, 4467985,
      4286926, 4104128, 3919666, 3733615, 3546049, 3357045, 3166680, 2975031,
      2782175, 2588190, 2393157, 2197152, 2000257, 1802550, 1604113, 1405025,
      1205367, 1005220, 804666, 603785, 402659, 201371, 0 >>

CosUnit == 10000000

cosOf(k) ==
  LET a == k % TableTurn
      quarter == TableTurn \div 4
  IN IF a <= quarter THEN CosTable[a + 1]
     ELSE IF a <= 2 * quarter THEN 0 - CosTable[2 * quarter - a + 1]
     ELSE IF a <= 3 * quarter THEN 0 - CosTable[a - 2 * quarter + 1]
     ELSE CosTable[TableTurn - a + 1]

sinOf(k) == cosOf(k + 3 * (TableTurn \div 4))

\* the number that v.toFixed(2) prints, v = rad * c / CosUnit, in units of 1/Unit
toFixed2Number(rad, c) ==
  LET product == rad * c
      magnitude == (IF product < 0 THEN 0 - product ELSE product)
      hundredths == (magnitude + CosUnit \div 200) \div (CosUnit \div 100)
  IN (IF product < 0 THEN 0 - hundredths ELSE hundredths) * (Unit \div 100)

\* the two numbers of the text toFixed2(p)
printedX(p) == toFixed2Number(p.rad, cosOf(p.ang * (TableTurn \div Turn(numRings))))

printedY(p) == toFixed2Number(p.rad, sinOf(p.ang * (TableTurn \div Turn(numRings))))

\* one command of pathD as its text (lines 348, 359 and 367)
commandText(c) ==
  IF c.cmd = "A"
  THEN <<CommandToken("A"), NumberToken(c.rx * Unit), NumberToken(c.ry * Unit),
         NumberToken(c.rotation * Unit), NumberToken(c.largeArc * Unit),
         NumberToken(c.sweep * Unit), NumberToken(printedX(c.pt)),
         NumberToken(printedY(c.pt))>>
  ELSE <<CommandToken(c.cmd), NumberToken(printedX(c.pt)), NumberToken(printedY(c.pt))>>

RECURSIVE pathText(_, _)
\* pathCommands.join(" ") from command i on
pathText(cmds, i) ==
  IF i > Len(cmds) THEN <<>> ELSE commandText(cmds[i]) \o pathText(cmds, i + 1)

\* the first call of generateMaze (App.tsx:43-47)
FirstGenerate ==
  /\ pc = "idle"
  /\ \E cfg \in Configs : Generate(cfg)

\* svgPathToClipperPaths(mazePathD) of the maze that was returned, up to the
\* first match (clipperUtils.ts:373)
ParseMaze ==
  /\ pc = "done"
  /\ ppc = "idle"
  /\ ParseBegin(pathText(result.pathD, 1))
  /\ UNCHANGED nonParseVars

-----------------------------------------------------------------------------
(* The rotation loop taken alone (mazeGenerator.ts:259-278)                *)
(*                                                                         *)
(* The loop reads the grid and startNode only.  It is run here on the      *)
(* grids of up to MaxRotationRings rings, for the nodes of the outer ring  *)
(* as startNode.  theta + rotationAngle is a floating-point sum: where the *)
(* exact sum is -pi or pi, the computed one is that number or a            *)
(* neighbour of it, and the tests of lines 276-277 see the computed one.   *)
(* InexactStarts are the start nodes for which some node's computed sum is *)
(* not the exact one; they are left out.                                   *)

MaxRotationRings == 8

\* the cells s of the outer ring for which (c / numCells) * 2 * Math.PI
\* + (-Math.PI / 2 - startNode.theta) is not the exact sum for some node
InexactStarts(n) ==
  IF n = 7 THEN (3..8) \cup {15, 18, 25} \cup (27..31) \cup (36..39) ELSE {}

RotationInputs ==
  {in \in [n : 1..MaxRotationRings, s : 0..(numCells(MaxRotationRings + 1))] :
     in.s < numCells(in.n) /\ in.s \notin InexactStarts(in.n)}

\* no call of clipperPathsToSvgPath
RoundTripIdle == clipperPaths = <<>>

RotationIdle ==
  /\ rotPc = "idle"
  /\ rotRings = 0
  /\ rotStart = NoNode
  /\ rotTheta = [id \in {centerNode} |-> 0]

\* the state before line 259: the grid of lines 40-65 and a startNode
RotationStart(in) ==
  /\ rotPc = "idle"
  /\ rotPc' = "loop"
  /\ rotRings' = in.n
  /\ rotStart' = <<in.n, in.s>>
  /\ rotTheta' = [id \in NodeSet(in.n) |-> initialTheta(Turn(in.n), id)]
  /\ UNCHANGED <<mazeVars, parseVars, dxfVars, outlineVars, exportVars, roundTripVars>>

\* lines 259-278, theta only
RotateNodes ==
  /\ rotPc = "loop"
  /\ rotPc' = "rotated"
  /\ rotTheta' =
       [id \in DOMAIN rotTheta |->
          IF id[1] = 0 THEN rotTheta[id]
          ELSE rotateTheta(rotTheta[id],
                           targetTheta(Turn(rotRings)) - rotTheta[rotStart],
                           Turn(rotRings))]
  /\ UNCHANGED <<rotRings, rotStart>>
  /\ UNCHANGED <<mazeVars, parseVars, dxfVars, outlineVars, exportVars, roundTripVars>>

-----------------------------------------------------------------------------

(* The generator: calls of generateMaze one after the other *)

Idle ==
  /\ pc = "idle"
  /\ kept = NotKept
  /\ lastWeighted = <<>>
  /\ config = None
  /\ seedValue = 0
  /\ numRings = 0
  /\ nodes = <<>>
  /\ visited = <<>>
  /\ parent = <<>>
  /\ theta = <<>>
  /\ xy = <<>>
  /\ active = <<>>
  /\ edges = <<>>
  /\ entryDirMap = <<>>
  /\ startNode = NoNode
  /\ pathD = <<>>
  /\ solutionD = <<>>
  /\ result = NoResult

Init ==
  Idle /\ oracle = FALSE /\ ParserIdle /\ DxfIdle /\ OutlineIdle /\ ExportIdle /\ RotationIdle /\ RoundTripIdle

\* runs on the sin stream and runs on an arbitrary stream
InitAll ==
  /\ Idle /\ oracle \in BOOLEAN /\ ParserIdle /\ DxfIdle /\ OutlineIdle /\ ExportIdle
  /\ RotationIdle /\ RoundTripIdle

Next ==
  \/ \E cfg \in Inputs : Generate(cfg)
  \/ GrowStep
  \/ SelectEntry
  \/ Rotate
  \/ Stitch
  \/ Return

Spec == Init /\ [][Next]_vars

SpecAll == InitAll /\ [][Next]_vars

\* one maze is generated and its pathD is parsed
NextStitchParse ==
  \/ FirstGenerate
  \/ GrowStep
  \/ SelectEntry
  \/ Rotate
  \/ Stitch
  \/ Return
  \/ ParseMaze
  \/ ParseCommand
  \/ ParseReturn

SpecStitchParse == Init /\ [][NextStitchParse]_vars

\* the rotation loop on grids and start nodes
NextRotation ==
  \/ \E in \in RotationInputs : RotationStart(in)
  \/ RotateNodes

SpecRotation == Init /\ [][NextRotation]_vars

\* svgPathToClipperPaths(clipperPathsToSvgPath(ps)) for each list of RoundTripInputs
InitRoundTrip ==
  /\ Idle /\ oracle = FALSE /\ DxfIdle /\ OutlineIdle /\ ExportIdle /\ RotationIdle
  /\ \E ps \in RoundTripInputs : RoundTripStart(ps)

NextRoundTrip ==
  \/ ParseCommand
  \/ ParseReturn

SpecRoundTrip == InitRoundTrip /\ [][NextRoundTrip]_vars

\* generateMaze up to the end of "1. Create Grid", for each config of GridConfigs
NextGrid == \E cfg \in GridConfigs : Generate(cfg)

SpecGrid == Init /\ [][NextGrid]_vars

\* svgPathToClipperPaths applied to each path string of ParseInputs
InitParse ==
  /\ Idle /\ oracle = FALSE /\ DxfIdle /\ OutlineIdle /\ ExportIdle /\ RotationIdle /\ RoundTripIdle
  /\ \E s \in ParseInputs : ParseStart(s)

NextParse ==
  \/ ParseCommand
  \/ ParseReturn

SpecParse == InitParse /\ [][NextParse]_vars

\* generateDXF applied to each argument of DxfInputs
InitDxf ==
  /\ Idle /\ oracle = FALSE /\ ParserIdle /\ OutlineIdle /\ ExportIdle /\ RotationIdle /\ RoundTripIdle
  /\ \E args \in DxfInputs : DxfStart(args)

NextDxf ==
  \/ WriteHeader
  \/ WriteTables
  \/ BeginEntities
  \/ AddPath
  \/ DxfReturn

SpecDxf == InitDxf /\ [][NextDxf]_vars

\* createMazeOutline applied to each argument of OutlineInputs
InitOutline ==
  /\ Idle /\ oracle = FALSE /\ DxfIdle /\ ExportIdle /\ RotationIdle /\ RoundTripIdle
  /\ \E args \in OutlineInputs : OutlineStart(args)

NextOutline ==
  \/ ParseCommand
  \/ ParseReturn
  \/ MazePathsParsed
  \/ EntrancePathsParsed
  \/ OffsetPaths
  \/ OutlineReturn

SpecOutline == InitOutline /\ [][NextOutline]_vars

\* one session of the application: mazes are generated and exported
InitExport == Init

NextExport ==
  \/ AppGenerate
  \/ GrowStep
  \/ SelectEntry
  \/ Rotate
  \/ Stitch
  \/ Return
  \/ ExportClick
  \/ ExportResume
  \/ ExportOutline
  \/ ExportWedge
  \/ ExportSerialise
  \/ ExportDownload
  \/ ExportThrow
  \/ ExportFinally
  \/ Abandon

SpecExport == InitExport /\ [][NextExport]_vars

\* the exports of a page that stays open: generateMaze runs to its return, the
\* timer of a waiting handler fires although other events keep coming, and a
\* handler that runs goes on to its next statement
NextExportLive ==
  \/ AppGenerate
  \/ GrowStep
  \/ SelectEntry
  \/ Rotate
  \/ Stitch
  \/ Return
  \/ ExportClick
  \/ ExportResume
  \/ ExportOutline
  \/ ExportWedge
  \/ ExportSerialise
  \/ ExportDownload
  \/ ExportThrow
  \/ ExportFinally

\* a step of a running call of generateMaze, the stitching apart
generatorStep == GrowStep \/ SelectEntry \/ Rotate \/ Return

\* what Stitch does to pc; no other step of the session leads from "stitch" to
\* "solution", and Stitch is enabled whenever pc = "stitch"
stitchStep == pc = "stitch" /\ pc' = "solution"

\* a step of a handler that has been resumed, other than a throw
handlerStep ==
  ExportOutline \/ ExportWedge \/ ExportSerialise \/ ExportDownload \/ ExportFinally

FairExport ==
  /\ WF_vars(generatorStep)
  /\ WF_pc(stitchStep)
  /\ SF_vars(ExportResume)
  /\ WF_vars(handlerStep)

SpecExportLive == InitExport /\ [][NextExportLive]_vars /\ FairExport

-----------------------------------------------------------------------------
(* Claims about the growing tree *)

visitedNodes == {id \in DOMAIN visited : visited[id]}

children(id) == {c \in DOMAIN parent : parent[c] = id}

\* following parent pointers from id reaches the centre in at most fuel steps
RECURSIVE ReachesCenter(_, _)
ReachesCenter(id, fuel) ==
  \/ id = centerNode
  \/ /\ fuel > 0
     /\ parent[id] # NoNode
     /\ ReachesCenter(parent[id], fuel - 1)

InCall == pc \in {"grow", "rotate", "stitch", "solution", "done"}

\* C1: in every state of the loop and up to the return of a valid run the parent
\* pointers form a tree rooted at the centre node: the centre is visited and is the only
\* visited node without a parent, every other visited node has a visited parent and
\* exactly one recorded edge leading to it, which comes from that parent, unvisited
\* nodes have no parent and no edge, the number of edges is the number of visited nodes
\* minus one, and the parent chain of every visited node reaches the centre within
\* that many steps, hence without passing a node twice.
ParentTreeC1 ==
  (InCall /\ numRings >= 1) =>
    /\ visited[centerNode] /\ parent[centerNode] = NoNode
    /\ \A id \in DOMAIN visited :
         /\ (visited[id] /\ id # centerNode) =>
              /\ parent[id] # NoNode
              /\ visited[parent[id]]
              /\ Cardinality({i \in 1..Len(edges) : edges[i][2] = id}) = 1
              /\ \E i \in 1..Len(edges) : edges[i] = <<parent[id], id>>
         /\ ~visited[id] =>
              /\ parent[id] = NoNode
              /\ \A i \in 1..Len(edges) : edges[i][1] # id /\ edges[i][2] # id
    /\ Len(edges) = Cardinality(visitedNodes) - 1
    /\ \A id \in visitedNodes : ReachesCenter(id, Cardinality(visitedNodes) - 1)

\* C1 witness: inside the loop of a two-ring run, with ten nodes visited, a node that
\* has two children and nodes still unvisited
WitnessC1 ==
  /\ pc = "grow"
  /\ numRings = 2
  /\ Cardinality(visitedNodes) = 10
  /\ \E id \in visitedNodes : Cardinality(children(id)) >= 2

unvisitedCount == Cardinality(DOMAIN visited \ visitedNodes)

\* what is left to do in the loop: every unvisited node is appended once and every
\* appended node is removed once
loopMeasure == 2 * unvisitedCount + Len(active)

AllVisited == \A id \in NodeSet(numRings) : id \in DOMAIN visited /\ visited[id]

\* C2: for a valid run, whatever random() returns, every iteration of the loop
\* decreases loopMeasure, a natural number, so the loop ends; it is left only with
\* active empty, and from then on every node of the polar graph is visited.
TerminatesC2 ==
  /\ [][(pc = "grow" /\ Len(active) > 0 /\ numRings >= 1) =>
          (pc' = "grow" /\ loopMeasure' < loopMeasure /\ loopMeasure' >= 0)]_vars
  /\ [][(pc = "grow" /\ pc' # "grow" /\ numRings >= 1) => Len(active) = 0]_vars
  /\ []((InCall /\ numRings >= 1 /\ Len(active) = 0) => AllVisited)

\* C2 witness: the loop of a run on an arbitrary stream has just ended with every
\* node visited, the centre having got two children by a random pick of current
LoopEndedC2 ==
  /\ oracle
  /\ pc = "rotate"
  /\ numRings >= 1
  /\ Len(active) = 0
  /\ AllVisited
  /\ Cardinality(children(centerNode)) >= 2

-----------------------------------------------------------------------------
(* Claims about the returned MazeData *)

\* C3: a call that returns for the configuration of the kept call, whatever calls were
\* made in between, returns the kept pathD, solutionD, startPoint and node list (ids,
\* parents, x, y, theta).
SameConfigSameMazeC3 ==
  (pc = "done" /\ kept.kept /\ kept.config = config) =>
    /\ result.pathD = kept.data.pathD
    /\ result.solutionD = kept.data.solutionD
    /\ result.startPoint = kept.data.startPoint
    /\ result.nodes = kept.data.nodes

\* C3 witness: a two-ring maze is returned for the second time, another call having
\* been made between the two
RepeatedCallC3 ==
  /\ pc = "done"
  /\ kept.kept
  /\ kept.config = config
  /\ kept.later = 2
  /\ numRings = 2
  /\ Len(result.pathD) > 0

\* C4 (as claimed): a call whose config gives numRings < 1 ends by failing with
\* InvalidConfiguration, having created no node and returning no MazeData.
RejectsInvalidConfigC4 ==
  (pc \in {"done", "threw"} /\ numRings < 1) =>
    /\ pc = "threw"
    /\ result = [kind |-> "error", error |-> "InvalidConfiguration"]
    /\ nodes = <<>>

Rotated == pc \in {"stitch", "solution", "done"}

\* C5: once a valid run has rotated the maze, the selected entry node is a node of the
\* outermost ring, its theta is -pi/2, its (x, y) lies at the angle -pi/2 and at the
\* distance numRings * stepSize from the origin, and the returned startPoint is that
\* (x, y).
EntryAtTopC5 ==
  (Rotated /\ numRings >= 1) =>
    /\ startNode \in DOMAIN theta
    /\ startNode[1] = numRings
    /\ 4 * theta[startNode] = -Turn(numRings)
    /\ 4 * xy[startNode].ang = 3 * Turn(numRings)
    /\ xy[startNode].rad = numRings * stepSize(config)
    /\ pc = "done" => /\ result.kind = "MazeData"
                      /\ result.startPoint = xy[startNode]

\* C5 witness: a two-ring maze is returned whose entry node was not created at the
\* angle it ends at, so the rotation moved it
EntryMovedC5 ==
  /\ pc = "done"
  /\ numRings = 2
  /\ startNode[2] # 0
  /\ 4 * initialTheta(Turn(numRings), startNode) # 3 * Turn(numRings)
  /\ result.startPoint = [rad |-> 2 * stepSize(config), ang |-> 3 * (Turn(numRings) \div 4)]

\* the nodes from id to the root along the parent pointers
RECURSIVE chainNodes(_)
chainNodes(id) == IF parent[id] = NoNode THEN <<id>> ELSE <<id>> \o chainNodes(parent[id])

\* the radial steps of a chain, same-ring steps left out
RECURSIVE radialSteps(_, _)
radialSteps(chain, i) ==
  IF i >= Len(chain) THEN <<>>
  ELSE (IF chain[i + 1][1] < chain[i][1] THEN <<"inward">>
        ELSE IF chain[i + 1][1] > chain[i][1] THEN <<"outward">>
        ELSE <<>>) \o radialSteps(chain, i + 1)

reversals(steps) == Cardinality({i \in 1..(Len(steps) - 1) : steps[i] # steps[i + 1]})

\* an angular delta brought into [-pi, pi), as a number of units
shortDelta(d) == ((d + Turn(numRings) \div 2) % Turn(numRings)) - Turn(numRings) \div 2

RECURSIVE turning(_, _)
turning(chain, i) ==
  IF i >= Len(chain) THEN 0
  ELSE abs(shortDelta(theta[chain[i + 1]] - theta[chain[i]])) + turning(chain, i + 1)

\* length + 200 * inflections + 10 * rotation of the chain of id, times 113 * Turn
claimedScore(id) ==
  LET chain == chainNodes(id)
  IN (Len(chain) - 1 + 200 * reversals(radialSteps(chain, 1))) * 113 * Turn(numRings)
     + 7100 * turning(chain, 1)

\* C6: the entry node selected in a valid run is a node of the outermost ring whose
\* score is no less than that of any node of that ring, and no node of the ring with
\* the same score has a lower cell index.
HardestEntryC6 ==
  (pc = "rotate" /\ numRings >= 1) =>
    /\ startNode[1] = numRings
    /\ startNode[2] \in 0..(numCells(numRings) - 1)
    /\ \A c \in 0..(numCells(numRings) - 1) :
         /\ claimedScore(<<numRings, c>>) <= claimedScore(startNode)
         /\ claimedScore(<<numRings, c>>) = claimedScore(startNode) => startNode[2] <= c

\* C6 witness: the selected node of a two-ring maze has a chain that reverses its
\* radial direction across a same-ring step, and another node of the ring has its score
TiedEntryC6 ==
  /\ pc = "rotate"
  /\ numRings = 2
  /\ reversals(radialSteps(chainNodes(startNode), 1)) >= 1
  /\ \E c \in 0..(numCells(numRings) - 1) :
       /\ c # startNode[2]
       /\ claimedScore(<<numRings, c>>) = claimedScore(startNode)

-----------------------------------------------------------------------------
(* Claims about the path descriptions *)

\* the node whose coordinates a command prints
nodeAt(pt) == CHOOSE id \in DOMAIN xy : toFixed2(xy[id]) = pt

\* the degree of a node in the spanning tree, from the parent pointers
degree(id) == Cardinality(children(id)) + (IF parent[id] = NoNode THEN 0 ELSE 1)

treeEdges == {{parent[id], id} : id \in {n \in DOMAIN parent : parent[n] # NoNode}}

\* the indices of the L and A commands of a path
segmentsOf(path) == {i \in 1..Len(path) : path[i].cmd # "M"}

\* the edge command i of a path draws: from the point of the command before it
drawnEdge(path, i) == {nodeAt(path[i - 1].pt), nodeAt(path[i].pt)}

endsSubPath(path, i) == i = Len(path) \/ path[i + 1].cmd = "M"

\* C7: in the corridor path of a valid run every L or A command draws an edge of the
\* spanning tree, every edge of the tree is drawn by exactly one command, every M is
\* at a node of degree other than 2 and is followed by a segment, and a segment ends
\* its sub-path exactly when it arrives at a node of degree other than 2.
CorridorPathC7 ==
  (pc \in {"solution", "done"} /\ numRings >= 1) =>
    /\ Len(pathD) > 0 /\ pathD[1].cmd = "M"
    /\ \A i \in segmentsOf(pathD) : drawnEdge(pathD, i) \in treeEdges
    /\ \A e \in treeEdges :
         Cardinality({i \in segmentsOf(pathD) : drawnEdge(pathD, i) = e}) = 1
    /\ \A i \in 1..Len(pathD) :
         IF pathD[i].cmd = "M"
         THEN /\ degree(nodeAt(pathD[i].pt)) # 2
              /\ ~endsSubPath(pathD, i)
         ELSE endsSubPath(pathD, i) <=> degree(nodeAt(pathD[i].pt)) # 2

\* C7 witness: the corridor path of a two-ring maze has a sub-path of three segments
\* or more and a junction of degree three or more at which sub-paths start
StitchedC7 ==
  /\ pc = "solution"
  /\ numRings = 2
  /\ \E i \in 1..(Len(pathD) - 3) :
       /\ pathD[i].cmd = "M"
       /\ \A k \in 1..3 : pathD[i + k].cmd # "M"
  /\ \E i \in 1..Len(pathD) : pathD[i].cmd = "M" /\ degree(nodeAt(pathD[i].pt)) >= 3

\* C8: the solution path of a valid run is one M at the selected entry node, whose
\* (x, y) is the returned startPoint, followed by one segment per parent edge of the
\* chain from the entry node to the root, in that order, the last one ending at the
\* root, whose (x, y) is the returned endPoint (0, 0).
SolutionPathC8 ==
  (pc = "done" /\ numRings >= 1) =>
    LET chain == chainNodes(startNode)
    IN /\ Len(solutionD) = Len(chain)
       /\ result.solutionD = solutionD
       /\ solutionD[1] = [cmd |-> "M", pt |-> toFixed2(xy[startNode])]
       /\ result.startPoint = xy[startNode]
       /\ \A i \in 2..Len(solutionD) :
            /\ solutionD[i].cmd \in {"L", "A"}
            /\ solutionD[i].pt = toFixed2(xy[chain[i]])
            /\ chain[i] = parent[chain[i - 1]]
       /\ chain[Len(chain)] = centerNode
       /\ solutionD[Len(solutionD)].pt = toFixed2(result.endPoint)
       /\ result.endPoint = [rad |-> 0, ang |-> 0]

\* C8 witness: a returned solution path of a two-ring maze with lines and arcs and more
\* than five segments
LongSolutionC8 ==
  /\ pc = "done"
  /\ numRings = 2
  /\ Len(solutionD) > 6
  /\ \E i \in 1..Len(solutionD) : solutionD[i].cmd = "A"
  /\ \E i \in 1..Len(solutionD) : solutionD[i].cmd = "L"

-----------------------------------------------------------------------------
(* The parser's failures *)

ParseError == [kind |-> "error", error |-> "ParseError"]

\* a call of svgPathToClipperPaths that has ended, by a return or a throw
ParseEnded == ppc \notin {"idle", "scan"}

\* the path string has a command word outside M/m, L/l, H/h, V/v, A/a, Z/z
hasUnknownCommand(s) == \E i \in 1..Len(s) : s[i].t = "word"

\* C9: when the path string contains a command token outside M/m, L/l, H/h,
\* V/v, A/a, Z/z (a C or a Q), svgPathToClipperPaths fails with a ParseError
\* and returns no point sequence; it does not skip the token and return the
\* sequences parsed from the rest.
UnknownCommandFailsC9 ==
  (ParseEnded /\ hasUnknownCommand(parsePathD)) => parsed = ParseError

arity(letter) ==
  CASE letter \in {"M", "m", "L", "l"} -> 2
    [] letter \in {"H", "h", "V", "v"} -> 1
    [] letter \in {"A", "a"} -> 7
    [] OTHER -> 0

\* some M, L, H, V or A command of the path string is followed by a number of
\* arguments that is not a multiple of its arity, or by an argument that is
\* not a number
hasMalformedArgs(s) ==
  \E ci \in 1..Len(s) :
    /\ s[ci].t = "cmd"
    /\ arity(s[ci].c) > 0
    /\ \/ (matchEnd(s, ci) - ci - 1) % arity(s[ci].c) # 0
       \/ \E j \in (ci + 1)..(matchEnd(s, ci) - 1) : s[j].t # "num"

\* a returned point one of whose coordinates is missing or NaN
returnsNaNPoint ==
  /\ parsed.kind = "Paths"
  /\ \E p \in 1..Len(parsed.paths) : \E q \in 1..Len(parsed.paths[p]) :
       \/ parsed.paths[p][q].X.k \in {"nan", "undefined"}
       \/ parsed.paths[p][q].Y.k \in {"nan", "undefined"}

\* C10: svgPathToClipperPaths rejects a command whose argument list is
\* malformed (a count that is not a multiple of the arity 2 of M/L, 1 of H/V,
\* 7 of A, or an argument that is not a number): it returns no point
\* sequence, and never a point with a missing or NaN coordinate.
MalformedArgsFailC10 ==
  ParseEnded => /\ hasMalformedArgs(parsePathD) => parsed = ParseError
                /\ ~returnsNaNPoint

-----------------------------------------------------------------------------
(* The DXF document *)

\* the commands of the path string are M, L and Z, the string begins with M,
\* every M and L has one or more pairs of numbers and Z has none
isMLZPath(s) ==
  /\ Len(s) > 0
  /\ s[1].t = "cmd" /\ s[1].c = "M"
  /\ \A i \in 1..Len(s) :
       /\ s[i].t \in {"cmd", "num"}
       /\ s[i].t = "cmd" =>
            /\ s[i].c \in {"M", "L", "Z"}
            /\ LET n == commandEnd(s, i) - i - 1
               IN IF s[i].c = "Z" THEN n = 0 ELSE n > 0 /\ n % 2 = 0

\* the points written between tokens a and b of the path string
pointsBetween(s, a, b) ==
  LET nums == SelectSeq(SubSeq(s, a, b), LAMBDA tok : tok.t = "num")
  IN [i \in 1..(Len(nums) \div 2) |-> [x |-> nums[2 * i - 1].v, y |-> nums[2 * i].v]]

\* the sub-paths of the path string, each from its M to the token before the next M
subPaths(s) ==
  LET starts == SelectSeq([i \in 1..Len(s) |-> i],
                          LAMBDA i : s[i].t = "cmd" /\ s[i].c = "M")
      endOf(k) == IF k < Len(starts) THEN starts[k + 1] - 1 ELSE Len(s)
  IN [k \in 1..Len(starts) |->
        [closed |-> \E i \in starts[k]..endOf(k) : s[i].t = "cmd" /\ s[i].c = "Z",
         points |-> pointsBetween(s, starts[k], endOf(k))]]

RECURSIVE vertexPoints(_, _)
\* the points of the VERTEX records that begin at record j
vertexPoints(recs, j) ==
  IF j + 4 <= Len(recs) /\ recs[j].code = 0 /\ recs[j].text = "VERTEX"
  THEN <<[x |-> recs[j + 2].number, y |-> recs[j + 3].number]>> \o vertexPoints(recs, j + 5)
  ELSE <<>>

\* the POLYLINE entities of a run of records: closed flag and vertices
polylinesOf(recs) ==
  LET starts == SelectSeq([i \in 1..Len(recs) |-> i],
                          LAMBDA i : recs[i].code = 0 /\ recs[i].text = "POLYLINE")
  IN [k \in 1..Len(starts) |->
        [closed |-> recs[starts[k] + 3].number = Unit,
         points |-> vertexPoints(recs, starts[k] + 4)]]

isClosed(contour) == contour.closed

\* what one call of addPathToDXF wrote
writtenBy(before, after) == SubSeq(after, Len(before) + 1, Len(after))

\* a sub-path of one point makes no line and need not be written
isLine(contour) == Len(contour.points) >= 2

contoursWritten(s, recs) ==
  LET sp == subPaths(s)
      em == polylinesOf(recs)
  IN /\ SelectSeq(em, isClosed) = SelectSeq(sp, LAMBDA c : isClosed(c) /\ isLine(c))
     /\ ~sp[Len(sp)].closed /\ isLine(sp[Len(sp)]) =>
          /\ Len(em) > 0
          /\ em[Len(em)] = sp[Len(sp)]
          /\ Len(SelectSeq(em, LAMBDA e : ~e.closed)) = 1
     /\ \A k \in 1..Len(em) : \E j \in 1..Len(sp) : em[k].points = sp[j].points

markers(recs) ==
  LET at == SelectSeq([i \in 1..Len(recs) |-> i], LAMBDA i : recs[i].code = 0)
  IN [k \in 1..Len(at) |->
        [tag |-> recs[at[k]].text,
         name |-> IF recs[at[k]].text \in {"SECTION", "TABLE"} /\ at[k] < Len(recs)
                  THEN recs[at[k] + 1].text ELSE ""]]

\* the place reached in the document after marker m is read at place q
afterMarker(q, m) ==
  CASE q = "start" /\ m.tag = "SECTION" /\ m.name = "HEADER" -> "header"
    [] q = "header" /\ m.tag = "ENDSEC" -> "afterHeader"
    [] q = "afterHeader" /\ m.tag = "SECTION" /\ m.name = "TABLES" -> "tables"
    [] q = "tables" /\ m.tag = "TABLE" -> "table"
    [] q = "table" /\ m.tag \in {"LTYPE", "LAYER"} -> "table"
    [] q = "table" /\ m.tag = "ENDTAB" -> "tables"
    [] q = "tables" /\ m.tag = "ENDSEC" -> "afterTables"
    [] q = "afterTables" /\ m.tag = "SECTION" /\ m.name = "ENTITIES" -> "entities"
    [] q = "entities" /\ m.tag = "POLYLINE" -> "polyline"
    [] q = "polyline" /\ m.tag = "VERTEX" -> "oneVertex"
    [] q = "oneVertex" /\ m.tag = "VERTEX" -> "vertices"
    [] q = "vertices" /\ m.tag = "VERTEX" -> "vertices"
    [] q = "vertices" /\ m.tag = "SEQEND" -> "entities"
    [] q = "entities" /\ m.tag = "ENDSEC" -> "afterEntities"
    [] q = "afterEntities" /\ m.tag = "EOF" -> "end"
    [] OTHER -> "wrong"

RECURSIVE placeAfter(_, _, _)
placeAfter(ms, i, q) ==
  IF i > Len(ms) \/ q = "wrong" THEN q ELSE placeAfter(ms, i + 1, afterMarker(q, ms[i]))

\* C12: the records of generateDXF come in the order SECTION HEADER ... ENDSEC,
\* SECTION TABLES ... ENDSEC, SECTION ENTITIES ... ENDSEC, EOF; every SECTION is
\* closed by ENDSEC and every TABLE by ENDTAB before the next begins; inside
\* ENTITIES every POLYLINE is followed by two or more VERTEX records and then
\* one SEQEND before the next POLYLINE or ENDSEC.
RecordOrderC12 ==
  dxfPc = "returned" => placeAfter(markers(dxfContent), 1, "start") = "end"

\* a document with the wedge layers and with two POLYLINEs on CORRIDORS, one
\* closed and one open
TwoPolylinesC12 ==
  /\ dxfPc = "returned"
  /\ dxfArgs.wedgeData.wedge
  /\ LET c == polylinesOf(addPathToDXF(dxfArgs.outlines.corridors, "CORRIDORS"))
     IN Len(c) = 2 /\ c[1].closed /\ ~c[2].closed

-----------------------------------------------------------------------------
(* The outlines *)

\* a sub-path that ClipperOffset is not given
isDegenerate(path) == Len(path) < 2

\* the warnings that come with the result of createMazeOutline
warningsOf(r) == IF "warnings" \in DOMAIN r THEN r.warnings ELSE <<>>

\* C13: when a point sequence of fewer than two points reaches the offset,
\* createMazeOutline drops it, offsets the other sequences, and returns a
\* warning for the dropped one with its result
WarningForDroppedPathC13 ==
  (olPc = "returned" /\ \E i \in DOMAIN allPaths : isDegenerate(allPaths[i]))
    => /\ \A i \in DOMAIN offsetted.added : ~isDegenerate(offsetted.added[i])
       /\ Len(offsetted.added)
            = Cardinality({i \in DOMAIN allPaths : ~isDegenerate(allPaths[i])})
       /\ Len(warningsOf(outlines)) > 0

-----------------------------------------------------------------------------
(* The exports *)

\* the handler is at or before the stage, or has left the try block without a download
beforeDownload ==
  exPc \in {"suspended", "outline", "wedge", "serialise", "download", "caught", "abandoned"}

\* C14: an export handler gives a file to the browser only after the outlines,
\* the wedge (when asked for) and the serialised content are there; a handler
\* that threw, or that was abandoned while it waited, has produced no file
DownloadAfterStagesC14 ==
  /\ beforeDownload => Len(files) = filesBefore
  /\ exPc = "downloaded" =>
       /\ Len(files) = filesBefore + 1
       /\ exportProgress = 100
       /\ exOutlines # NoData
       /\ exData.config.showEntryWedge => exWedge # NoWedge
       /\ content # NoData
       /\ files[Len(files)].content = content

\* C14 witness: after one export that downloaded its file, a second one threw
\* when its outlines were already computed
ThrownExportC14 ==
  /\ exPc = "caught"
  /\ exportProgress >= 50
  /\ Len(files) = 1

\* the file an export of the given kind makes of the given MazeData
exportOf(kind, data) ==
  [name |-> fileName(kind, data.config),
   content |-> serialise(kind, data, outlineCall(data), wedgeCall(data))]

\* C15: when generateMaze runs while an export waits for its timer, the file of
\* the export is made of nothing but the MazeData of the click, and generateMaze
\* returns what it returns for that config at any other time
NoInterferenceC15 ==
  /\ exPc = "downloaded" => files[Len(files)] = exportOf(exKind, exData)
  /\ (isExporting /\ pc = "done" /\ kept.kept /\ kept.config = config) => result = kept.data

\* C15 witness: the config was changed while the export waited, to one whose
\* maze had been generated before, and the export has downloaded its file
RegeneratedDuringExportC15 ==
  /\ exPc = "downloaded"
  /\ pc = "done"
  /\ exData.config # config
  /\ kept.kept
  /\ kept.config = config

-----------------------------------------------------------------------------
(* The grid *)

\* the number of the nodes of ring r
cellCount(r) == Cardinality({i \in DOMAIN nodes : nodes[i][1] = r})

\* c = round(2 * pi * r), from 3.14159 < pi < 3.14160:
\* c - 1/2 <= 2 * 3.14159 * r and 2 * 3.14160 * r < c + 1/2
isRoundOfCircumference(c, r) ==
  /\ (2 * c - 1) * 100000 <= 4 * 314159 * r
  /\ 4 * 314160 * r < (2 * c + 1) * 100000

\* C16: the grid has floor((diameter/2 - wallWidth - corridorWidth/2) /
\* (corridorWidth + wallWidth)) rings around the one node of ring 0, ring r has
\* round(2 * pi * r) cells, and for 290 / 11 / 14 stepSize is 25 and there are
\* 5 rings of 6, 13, 19, 25 and 31 cells
GridC16 ==
  pc = "grow" /\ edges = <<>> =>
    LET twiceUsable == config.diameter - 2 * config.wallWidth - config.corridorWidth
        step == config.corridorWidth + config.wallWidth
    IN /\ 2 * step * numRings <= twiceUsable
       /\ twiceUsable < 2 * step * (numRings + 1)
       /\ cellCount(0) = 1
       /\ \A i \in DOMAIN nodes : nodes[i] = centerNode \/ nodes[i][1] \in 1..numRings
       /\ \A r \in 1..numRings : isRoundOfCircumference(cellCount(r), r)
       /\ (config.diameter = 290 /\ config.wallWidth = 11 /\ config.corridorWidth = 14) =>
            /\ stepSize(config) = 25
            /\ numRings = 5
            /\ [r \in 1..5 |-> cellCount(r)] = <<6, 13, 19, 25, 31>>

\* C16 witness: the grid of the config 290 / 11 / 14
DefaultGridC16 ==
  /\ pc = "grow"
  /\ edges = <<>>
  /\ config.diameter = 290
  /\ config.wallWidth = 11
  /\ config.corridorWidth = 14
  /\ Len(nodes) = 95

-----------------------------------------------------------------------------
(* The neighbours *)

\* the inward neighbour getNeighbors computes for a node of a ring r >= 1
inwardOf(n, node) == getNeighbors(n, node)[3]

\* the outward neighbours getNeighbors computes: all of ring 1 for the centre,
\* one node for a node of a ring 1 <= r < n
outwardsOf(n, node) ==
  IF node[1] = 0 THEN {getNeighbors(n, node)[i] : i \in DOMAIN getNeighbors(n, node)}
  ELSE {getNeighbors(n, node)[4]}

\* a node whose computed outward neighbour does not have it as its computed
\* inward neighbour
outwardIsNotReturned(n, node) ==
  node[1] < n /\ \E m \in outwardsOf(n, node) : inwardOf(n, m) # node

\* a node whose computed inward neighbour does not have it as its computed
\* outward neighbour
inwardIsNotReturned(n, node) ==
  node[1] >= 2 /\ node \notin outwardsOf(n, inwardOf(n, node))

\* the grid of the call has as many rings as any grid of GridConfigs
isLargestGrid == \A cfg \in GridConfigs : NumRingsOf(cfg) <= numRings

\* C18 as stated: for some config there is a node in a ring r < numRings whose
\* computed outward neighbour does not have that node as its computed inward
\* neighbour.  The cells of a ring and the neighbours between two rings are the
\* same in every grid that has them, so the largest grid has such a node if any
\* grid has one
OutwardAsymmetryC18 ==
  (pc = "grow" /\ edges = <<>> /\ isLargestGrid) =>
    \E i \in DOMAIN nodes : outwardIsNotReturned(numRings, nodes[i])

\* C18 amended: the computed outward neighbour of every node has that node as
\* its computed inward neighbour; the mapping is not symmetric the other way
\* round: with two rings or more there is a node in a ring r >= 2 whose computed
\* inward neighbour does not have that node as its computed outward neighbour
InwardAsymmetryC18 ==
  pc = "grow" /\ edges = <<>> =>
    /\ \A i \in DOMAIN nodes : ~outwardIsNotReturned(numRings, nodes[i])
    /\ numRings >= 2 => \E i \in DOMAIN nodes : inwardIsNotReturned(numRings, nodes[i])

\* C18 witness: in a grid of three rings, cell 1 of ring 2 has cell 0 of ring 1
\* as its inward neighbour, whose outward neighbour is cell 0 of ring 2, and
\* cell 1 of ring 2 is the inward neighbour of its own outward neighbour
AsymmetricNodeC18 ==
  /\ pc = "grow"
  /\ edges = <<>>
  /\ numRings = 3
  /\ inwardOf(numRings, <<2, 1>>) = <<1, 0>>
  /\ outwardsOf(numRings, <<1, 0>>) = {<<2, 0>>}
  /\ \A m \in outwardsOf(numRings, <<2, 1>>) : inwardOf(numRings, m) = <<2, 1>>

-----------------------------------------------------------------------------
(* The growing tree *)

\* the node a step of the loop has extended the tree from
extendedFrom == edges'[Len(edges')][1]

\* the node the step has chosen
extendedTo == edges'[Len(edges')][2]

\* the step has found a candidate and taken one
extends == pc = "grow" /\ Len(edges') = Len(edges) + 1

\* the values random() returned for the candidates of the step, on the sin stream
jittersOfStep ==
  LET drawn == IF random(seedValue) < branchProb(config) THEN 2 ELSE 1
  IN [i \in 1..Len(unvisitedNeighbors(extendedFrom)) |-> random(seedValue + drawn + i - 1)]

\* the weight as the sentence gives it, in units of 1/WeightUnit
statedWeight(difficulty, enteredBy, dir, jitter) ==
  LET sum == 100 * WeightUnit
             + (IF enteredBy = dir THEN (500 - 60 * difficulty) * WeightUnit
                ELSE (0 - 50) * WeightUnit)
             + (IF dir = "IN" THEN 1200 * WeightUnit ELSE 0)
             - (IF difficulty > 3 /\ dir = "OUT" THEN 40 * WeightUnit ELSE 0)
             + jitter
  IN IF sum > WeightUnit THEN sum ELSE WeightUnit

\* C19: whenever the loop finds candidates for its current node, the root
\* included, the weight of each is max(1, 100 + (inertiaWeight if current was
\* entered by the candidate's direction, otherwise -50) + (1200 for IN)
\* - (40 for OUT when difficulty > 3) + jitter), 0 <= jitter < 50,
\* inertiaWeight = 500 - 60 * difficulty
WeightFormulaC19 ==
  [][extends =>
       LET neighbors == unvisitedNeighbors(extendedFrom)
       IN \A i \in DOMAIN neighbors :
            /\ jittersOfStep[i] >= 0
            /\ jittersOfStep[i] < 50 * WeightUnit
            /\ weightOf(config, entryDirMap[extendedFrom], dirOf(extendedFrom, neighbors[i]),
                        jittersOfStep[i])
                 = statedWeight(config.difficulty, entryDirMap[extendedFrom],
                                dirOf(extendedFrom, neighbors[i]), jittersOfStep[i])]_vars

\* the place of a neighbour of current in the order clockwise, counter-clockwise,
\* inward, outward; the neighbours of the centre are the cells of ring 1 in
\* the order of their indices
enumerationPlace(current, n) ==
  IF current[1] = 0 THEN n[2]
  ELSE IF n[1] = current[1]
       THEN IF n[2] = (current[2] + 1) % cellCount(current[1]) THEN 1 ELSE 2
       ELSE IF n[1] < current[1] THEN 3 ELSE 4

\* the step has dropped a node from active
drops == pc = "grow" /\ Len(active') = Len(active) - 1

\* C20: an iteration whose current node has an unvisited neighbour takes a
\* candidate of greatest weight, the first of them in the order clockwise,
\* counter-clockwise, inward, outward; that node and no other becomes visited,
\* gets current as its parent and its entry direction recorded, and is put at
\* the end of active.  (Only a current node without unvisited neighbour is
\* dropped from active.)
PickBestC20 ==
  [][/\ drops => \E i \in DOMAIN active :
                   /\ active' = SubSeq(active, 1, i - 1) \o SubSeq(active, i + 1, Len(active))
                   /\ \A j \in DOMAIN getNeighbors(numRings, active[i]) :
                        visited[getNeighbors(numRings, active[i])[j]]
     /\ extends =>
          LET current == extendedFrom
              chosen == extendedTo
              candidates == lastWeighted'
          IN /\ {candidates[i].node : i \in DOMAIN candidates}
                  = {getNeighbors(numRings, current)[j] :
                       j \in {j \in DOMAIN getNeighbors(numRings, current) :
                                ~visited[getNeighbors(numRings, current)[j]]}}
             /\ \A i, j \in DOMAIN candidates :
                  i < j => enumerationPlace(current, candidates[i].node)
                             < enumerationPlace(current, candidates[j].node)
             /\ \E k \in DOMAIN candidates :
                  /\ candidates[k].node = chosen
                  /\ \A j \in DOMAIN candidates : candidates[j].weight <= candidates[k].weight
                  /\ \A j \in 1..(k - 1) : candidates[j].weight < candidates[k].weight
                  /\ entryDirMap' = [entryDirMap EXCEPT ![chosen] = candidates[k].dir]
             /\ ~visited[chosen]
             /\ visited' = [visited EXCEPT ![chosen] = TRUE]
             /\ parent' = [parent EXCEPT ![chosen] = current]
             /\ active' = Append(active, chosen)]_vars

\* C20 witness: the last iteration had two candidates of the greatest weight
\* and has taken the first of them
TiedCandidatesC20 ==
  /\ pc = "grow"
  /\ \E i, j \in DOMAIN lastWeighted :
       /\ i < j
       /\ lastWeighted[i].weight = lastWeighted[j].weight
       /\ \A k \in DOMAIN lastWeighted : lastWeighted[k].weight <= lastWeighted[i].weight
       /\ active[Len(active)] = lastWeighted[i].node

-----------------------------------------------------------------------------
(* The parsed corridors *)

\* the number of the edges of the tree at a node
treeDegree(id) == Cardinality({i \in DOMAIN edges : id \in {edges[i][1], edges[i][2]}})

\* the nodes at which a stitched sub-path begins or ends
endJunctions == {id \in NodeSet(numRings) : treeDegree(id) \notin {0, 2}}

\* the scaled coordinates of a node: Math.round of CLIPPER_SCALE times what was printed
scaledPointOf(id) ==
  [X |-> Num(printedX(xy[id]) * CLIPPER_SCALE), Y |-> Num(printedY(xy[id]) * CLIPPER_SCALE)]

\* the ends of the parsed sequences that lie at a point
endsAt(pt) ==
  {e \in (DOMAIN parsed.paths) \X {"first", "last"} :
     pt = IF e[2] = "first" THEN parsed.paths[e[1]][1]
          ELSE parsed.paths[e[1]][Len(parsed.paths[e[1]])]}

\* the maze was returned and the parse of its pathD has returned
mazeParsed == pc = "done" /\ ppc = "returned" /\ parsePathD = pathText(pathD, 1)

\* C17: svgPathToClipperPaths returns one point sequence for each sub-path of
\* the corridor path of generateMaze; a sequence begins and ends at the scaled
\* coordinates of nodes of degree other than 2, and as many sequences end at
\* such a node as the tree has edges there
ParsedTopologyC17 ==
  mazeParsed =>
    /\ Len(parsed.paths) = Cardinality({i \in DOMAIN pathD : pathD[i].cmd = "M"})
    /\ 2 * Len(parsed.paths)
         = Cardinality({e \in (DOMAIN edges) \X endJunctions :
                          e[2] \in {edges[e[1]][1], edges[e[1]][2]}})
    /\ \A i \in DOMAIN parsed.paths : Len(parsed.paths[i]) >= 2
    /\ \A j, k \in endJunctions : j # k => scaledPointOf(j) # scaledPointOf(k)
    /\ \A j \in endJunctions : Cardinality(endsAt(scaledPointOf(j))) = treeDegree(j)
    /\ 2 * Len(parsed.paths)
         = Cardinality(UNION {endsAt(scaledPointOf(j)) : j \in endJunctions})

\* C17 witness: the parsed corridors of a maze of two rings with a node where
\* three corridors meet
BranchingMazeParsedC17 ==
  /\ mazeParsed
  /\ numRings = 2
  /\ \E j \in endJunctions : treeDegree(j) >= 3

-----------------------------------------------------------------------------
(* The parent references *)

\* a step of a call of generateMaze: of the loop, the choice of the entry, the
\* rotation, the stitching or the solution path
stepOfCall == pc \in {"grow", "rotate", "stitch", "solution"}

\* C21: in every step of a call of generateMaze a visited node stays visited and
\* keeps its parent; a parent is given only to a node that was unvisited and had
\* none, in the step that visits it; the parent of the centre node stays null
ParentAssignedOnceC21 ==
  [][stepOfCall =>
       /\ DOMAIN visited' = DOMAIN visited
       /\ DOMAIN parent' = DOMAIN parent
       /\ \A id \in DOMAIN visited :
            /\ visited[id] => (visited'[id] /\ parent'[id] = parent[id])
            /\ parent'[id] # parent[id] =>
                 (~visited[id] /\ parent[id] = NoNode /\ visited'[id] /\ pc = "grow")
       /\ parent'[centerNode] = NoNode]_vars

\* C21 witness: the solution path of a maze is about to be made, on an arbitrary
\* stream: a node of the first ring got a parent that is not the centre, and the
\* steps after the loop have gone by
ParentsKeptC21 ==
  /\ oracle
  /\ pc = "solution"
  /\ \E id \in visitedNodes :
       parent[id] # NoNode /\ parent[id] # centerNode /\ id[1] = 1

-----------------------------------------------------------------------------
(* The rotation *)

\* C22: the rotation step leaves the nodes array (ids and ring indices), visited,
\* parent, the edges and everything of the centre node as they were; it turns x, y
\* and theta of every other node by one and the same angle, and a node stays at
\* the distance r * stepSize from the origin
RotationFrameC22 ==
  [][pc = "rotate" =>
       /\ nodes' = nodes
       /\ visited' = visited
       /\ parent' = parent
       /\ edges' = edges
       /\ entryDirMap' = entryDirMap
       /\ xy'[centerNode] = xy[centerNode]
       /\ theta'[centerNode] = theta[centerNode]
       /\ \E angle \in 0..(Turn(numRings) - 1) :
            \A id \in DOMAIN xy \ {centerNode} :
              /\ xy'[id].ang = (xy[id].ang + angle) % Turn(numRings)
              /\ (theta'[id] - theta[id] - angle) % Turn(numRings) = 0
       /\ \A id \in DOMAIN xy : xy'[id].rad = id[1] * stepSize(config)]_vars

\* C22 witness: a maze of two rings has been rotated by an angle other than a
\* whole turn, the entry being a node that is not cell 0 of its ring
RotatedByAngleC22 ==
  /\ pc = "stitch"
  /\ numRings = 2
  /\ startNode[2] # 0
  /\ xy[<<1, 0>>].ang # 0
  /\ theta[<<2, 0>>] # 0

-----------------------------------------------------------------------------
(* theta after the rotation *)

\* the cell a quarter turn before the start node, which the rotation brings to -pi
quarterTurnBefore(id) ==
  /\ id[1] # 0
  /\ 4 * id[2] * numCells(rotRings) + numCells(id[1]) * numCells(rotRings)
       = 4 * rotStart[2] * numCells(id[1])

\* C23 (as claimed): after the rotation the theta of every node other than the
\* root is in (-pi, pi]: greater than -pi and at most pi
ThetaHalfOpenC23 ==
  rotPc = "rotated" =>
    \A id \in DOMAIN rotTheta \ {centerNode} :
      /\ 2 * rotTheta[id] > -Turn(rotRings)
      /\ 2 * rotTheta[id] <= Turn(rotRings)

\* C23 (amended): after the rotation the theta of every node other than the
\* root is in [-pi, pi], and it is -pi exactly for the nodes a quarter turn
\* before the start node
ThetaClosedC23 ==
  rotPc = "rotated" =>
    \A id \in DOMAIN rotTheta \ {centerNode} :
      /\ 2 * rotTheta[id] >= -Turn(rotRings)
      /\ 2 * rotTheta[id] <= Turn(rotRings)
      /\ (2 * rotTheta[id] = -Turn(rotRings)) <=> quarterTurnBefore(id)

\* C23 witness: the grid of seven rings rotated for the start node 7,22: the
\* node 7,11 is at -pi and the start node at -pi/2
ThetaMinusPiC23 ==
  /\ rotPc = "rotated"
  /\ rotStart = <<7, 22>>
  /\ 2 * rotTheta[<<7, 11>>] = -Turn(7)
  /\ 4 * rotTheta[rotStart] = -Turn(7)

-----------------------------------------------------------------------------
(* The scaled points *)

\* X and Y are whole numbers (the points inside an arc are rounded by line 104)
isRoundedPoint(p) ==
  \/ p = ArcInterior
  \/ /\ p.X.k = "num" /\ p.X.v % Unit = 0
     /\ p.Y.k = "num" /\ p.Y.v % Unit = 0

\* every command of the path string is one of the parser's, with arguments that
\* are numbers, as many as its arity or a multiple of it, and not none
isWellFormed(s) ==
  /\ ~hasUnknownCommand(s)
  /\ ~hasMalformedArgs(s)
  /\ \A ci \in 1..Len(s) :
       (s[ci].t = "cmd" /\ arity(s[ci].c) > 0) => matchEnd(s, ci) - ci - 1 > 0

\* C24 (as claimed): every point of every sequence that svgPathToClipperPaths
\* returns for a well-formed path string has whole numbers for X and Y, the
\* rounded products of the coordinates and 1000, the end point of an arc whose
\* start is its end or whose radius is zero included
RoundedPointsC24 ==
  (ppc = "returned" /\ isWellFormed(parsePathD)) =>
    \A i \in DOMAIN parsed.paths : \A j \in DOMAIN parsed.paths[i] :
      isRoundedPoint(parsed.paths[i][j])

-----------------------------------------------------------------------------
(* The segments *)

\* the step of command i of a path is drawn as the sentence says: from the node
\* the command before ended at to the node this one ends at
segmentAsStated(path, i) ==
  LET from == nodeAt(path[i - 1].pt)
      to == nodeAt(path[i].pt)
  IN IF from[1] # to[1]
     THEN path[i].cmd = "L"
     ELSE /\ path[i].cmd = "A"
          /\ path[i].rx = from[1] * stepSize(config)
          /\ path[i].ry = from[1] * stepSize(config)
          /\ path[i].rotation = 0
          /\ path[i].largeArc = 0
          /\ path[i].sweep = IF shortDelta(theta[to] - theta[from]) > 0 THEN 1 ELSE 0

\* C25: in the corridor path and in the solution path a step between two nodes
\* is an L when their ring indices differ, and otherwise an A with both radii
\* ring index * stepSize, large-arc flag 0 and sweep flag 1 exactly when the
\* angle from the first node to the second, brought into [-pi, pi], is positive
SegmentsC25 ==
  /\ pc \in {"solution", "done"} => \A i \in segmentsOf(pathD) : segmentAsStated(pathD, i)
  /\ pc = "done" => \A i \in segmentsOf(solutionD) : segmentAsStated(solutionD, i)

\* C25 witness: a returned maze of two rings whose solution path has a line and
\* an arc, and whose corridor path has an arc of sweep 1 and an arc of sweep 0
\* between nodes whose thetas differ the other way round (the arc passes
\* the angle pi)
ArcsAcrossPiC25 ==
  /\ pc = "done"
  /\ numRings = 2
  /\ \E i, j \in segmentsOf(solutionD) : solutionD[i].cmd = "L" /\ solutionD[j].cmd = "A"
  /\ \E i \in segmentsOf(pathD) :
       /\ pathD[i].cmd = "A"
       /\ pathD[i].sweep = 1
       /\ theta[nodeAt(pathD[i].pt)] < theta[nodeAt(pathD[i - 1].pt)]
  /\ \E i \in segmentsOf(pathD) : pathD[i].cmd = "A" /\ pathD[i].sweep = 0

-----------------------------------------------------------------------------
(* The active list *)

activeNodes == {active[i] : i \in 1..Len(active)}

hasUnvisitedNeighbor(id) == Len(unvisitedNeighbors(id)) > 0

\* in the loop active holds visited nodes only, none twice, and every visited
\* node that has an unvisited neighbour
activeIsFrontier ==
  (pc = "grow" /\ numRings >= 1) =>
    /\ \A i \in 1..Len(active) : visited[active[i]]
    /\ \A i, j \in 1..Len(active) : active[i] = active[j] => i = j
    /\ \A id \in visitedNodes : hasUnvisitedNeighbor(id) => id \in activeNodes

\* an iteration either appends a node that was unvisited, or removes one node,
\* which has no unvisited neighbour, and keeps the others in their order
iterationOfActive ==
  (pc = "grow" /\ pc' = "grow" /\ numRings >= 1) =>
    \/ \E n \in DOMAIN visited :
         ~visited[n] /\ visited'[n] /\ n \notin activeNodes /\ active' = Append(active, n)
    \/ \E i \in 1..Len(active) :
         /\ ~hasUnvisitedNeighbor(active[i])
         /\ active' = SubSeq(active, 1, i - 1) \o SubSeq(active, i + 1, Len(active))
         /\ visited' = visited

\* C26: in every state of the loop active holds only visited nodes, none twice,
\* and every visited node that still has an unvisited neighbour; a node leaves
\* active only in an iteration that finds it without an unvisited neighbour, and
\* a node that enters active was unvisited, so that a node that has left (it is
\* visited for good) never enters again
ActiveListC26 ==
  /\ []activeIsFrontier
  /\ [][iterationOfActive]_vars

\* C26 witness: in the loop of a two-ring run a node has left active, from a
\* place that was not the last, while nodes are still unvisited
LeftActiveC26 ==
  /\ pc = "grow"
  /\ numRings = 2
  /\ unvisitedCount > 0
  /\ Len(active) >= 2
  /\ \E id \in visitedNodes \ activeNodes :
       \E i \in 1..(Len(active) - 1) : parent[active[i]] = id /\ parent[active[i + 1]] # id

-----------------------------------------------------------------------------
(* The edges and the arcs *)

\* two cells of one ring next to each other, the last cell being next to cell 0
cyclicallyAdjacent(a, b) ==
  /\ a[1] = b[1]
  /\ a[1] >= 1
  /\ \/ b[2] = (a[2] + 1) % numCells(a[1])
     \/ a[2] = (b[2] + 1) % numCells(a[1])

consecutiveRings(a, b) == a[1] = b[1] + 1 \/ b[1] = a[1] + 1

\* the angle of one cell of ring r
cellStep(r) == Turn(numRings) \div numCells(r)

\* C27: every edge of the tree joins two nodes of consecutive rings or two
\* cyclically adjacent cells of one ring; hence every arc of the corridor path
\* goes from a cell to a cell next to it, over the angle of one cell of its
\* ring, which is less than a half turn, as the large-arc flag 0 says
EdgesAndArcsC27 ==
  /\ (InCall /\ numRings >= 1) =>
       \A i \in 1..Len(edges) :
         \/ consecutiveRings(edges[i][1], edges[i][2])
         \/ cyclicallyAdjacent(edges[i][1], edges[i][2])
  /\ (pc \in {"solution", "done"} /\ numRings >= 1) =>
       \A i \in segmentsOf(pathD) :
         pathD[i].cmd = "A" =>
           LET from == nodeAt(pathD[i - 1].pt)
               to == nodeAt(pathD[i].pt)
           IN /\ cyclicallyAdjacent(from, to)
              /\ abs(shortDelta(theta[to] - theta[from])) = cellStep(from[1])
              /\ 2 * cellStep(from[1]) < Turn(numRings)
              /\ pathD[i].largeArc = 0

\* C27 witness: the corridor path of a two-ring maze has an arc in the second
\* ring and an arc between the last cell of a ring and its cell 0
ArcOverCellZeroC27 ==
  /\ pc = "solution"
  /\ numRings = 2
  /\ \E i \in segmentsOf(pathD) : pathD[i].cmd = "A" /\ nodeAt(pathD[i].pt)[1] = 2
  /\ \E i \in segmentsOf(pathD) :
       /\ pathD[i].cmd = "A"
       /\ {nodeAt(pathD[i - 1].pt)[2], nodeAt(pathD[i].pt)[2]}
            = {0, numCells(nodeAt(pathD[i].pt)[1]) - 1}

-----------------------------------------------------------------------------
(* The end of an export *)

exportRuns == exPc # "idle"

\* C28: an export that has started comes to its end, with isExporting false and
\* exportProgress 0, after a download as after a throw; as long as it runs
\* isExporting is true, and exportProgress does not go down before the end
ExportEndsC28 ==
  /\ isExporting ~> (~exportRuns /\ ~isExporting /\ exportProgress = 0)
  /\ [](exportRuns <=> isExporting)
  /\ [](~exportRuns => exportProgress = 0)
  /\ [][(exportRuns /\ exportRuns') => exportProgress' >= exportProgress]_vars

\* C28 witness: an export has ended after a throw, one file having been
\* downloaded before: isExporting is false and exportProgress is 0 again
EndedAfterThrowC28 ==
  /\ ~exportRuns
  /\ ~isExporting
  /\ exportProgress = 0
  /\ Len(files) = 1
  /\ filesBefore = 1

-----------------------------------------------------------------------------
(* The layers *)

\* the records that begin a POLYLINE, a VERTEX or a SEQEND
entityRecords(recs) ==
  {i \in 1..Len(recs) : recs[i].code = 0 /\ recs[i].text \in {"POLYLINE", "VERTEX", "SEQEND"}}

\* the layer an entity names: its group 8
layerOf(recs, i) ==
  IF i < Len(recs) /\ recs[i + 1].code = 8 THEN recs[i + 1].text ELSE "no layer"

usedLayers(recs) == {layerOf(recs, i) : i \in entityRecords(recs)}

\* the record that opens the LAYER table
layerTable(recs) ==
  CHOOSE h \in 1..Len(recs) :
    /\ recs[h].code = 0 /\ recs[h].text = "TABLE"
    /\ recs[h + 1].code = 2 /\ recs[h + 1].text = "LAYER"

\* the ENDTAB that closes it
layerTableEnd(recs) ==
  CHOOSE e \in layerTable(recs)..Len(recs) :
    /\ recs[e].code = 0 /\ recs[e].text = "ENDTAB"
    /\ \A j \in layerTable(recs)..(e - 1) : ~(recs[j].code = 0 /\ recs[j].text = "ENDTAB")

\* the LAYER records of the table
layerRecords(recs) ==
  {i \in layerTable(recs)..layerTableEnd(recs) : recs[i].code = 0 /\ recs[i].text = "LAYER"}

declaredLayers(recs) == {recs[i + 1].text : i \in layerRecords(recs)}

\* the count of the table's header: its group 70, a number of Units
layerCountWritten(recs) == recs[layerTable(recs) + 2]

WedgeLayers == {"WEDGE_CUT", "WEDGE_HOLE"}

\* C29: in a document generateDXF has returned every POLYLINE, VERTEX and SEQEND
\* names a layer of the LAYER table; the count of the table's header, 3 without
\* wedge data and 5 with it, is the number of LAYER records of the table; and
\* WEDGE_CUT and WEDGE_HOLE are declared with wedge data and only then, and no
\* entity is on them without wedge data
LayersC29 ==
  dxfPc = "returned" =>
    LET recs == dxfContent
        wedge == dxfArgs.wedgeData.wedge
    IN /\ usedLayers(recs) \subseteq declaredLayers(recs)
       /\ layerCountWritten(recs).code = 70
       /\ layerCountWritten(recs).number = Cardinality(layerRecords(recs)) * Unit
       /\ Cardinality(layerRecords(recs)) = (IF wedge THEN 5 ELSE 3)
       /\ Cardinality(declaredLayers(recs)) = Cardinality(layerRecords(recs))
       /\ \A l \in WedgeLayers :
            /\ l \in declaredLayers(recs) <=> wedge
            /\ l \in usedLayers(recs) => wedge

\* C29 witness: a document with wedge data, with entities on CORRIDORS, on
\* BOUNDARY and on WEDGE_CUT and five layers in its table
WedgeDocumentC29 ==
  /\ dxfPc = "returned"
  /\ dxfArgs.wedgeData.wedge
  /\ {"CORRIDORS", "BOUNDARY", "WEDGE_CUT"} \subseteq usedLayers(dxfContent)
  /\ Cardinality(layerRecords(dxfContent)) = 5

-----------------------------------------------------------------------------
(* The way back from Clipper paths *)

\* the sequences of a list that have a point
nonEmptyPaths(ps) == SelectSeq(ps, LAMBDA path : Len(path) > 0)

\* each sequence that has a point, followed by a copy of its first point
closedCopies(ps) ==
  [i \in 1..Len(nonEmptyPaths(ps)) |-> Append(nonEmptyPaths(ps)[i], nonEmptyPaths(ps)[i][1])]

\* no coordinate of the list is as large as 2^42 * 1000
belowFar(ps) ==
  \A i \in 1..Len(ps) : \A j \in 1..Len(ps[i]) : ps[i][j].X.k = "num" /\ ps[i][j].Y.k = "num"

\* the call of svgPathToClipperPaths on the text of clipperPaths has returned
roundTripDone == ppc = "returned" /\ parsePathD = clipperPathsToSvgPath(clipperPaths)

\* C30 (as claimed): for every list of point sequences with whole coordinates,
\* svgPathToClipperPaths(clipperPathsToSvgPath(P)) is the sequences of P that
\* have a point, in their order, each followed by a copy of its first point
RoundTripAnyC30 ==
  roundTripDone =>
    /\ parsed.kind = "Paths"
    /\ parsed.paths = closedCopies(clipperPaths)

\* C30: the same for the lists whose coordinates are below 2^42 * 1000 in
\* magnitude
RoundTripC30 ==
  (roundTripDone /\ belowFar(clipperPaths)) =>
    /\ parsed.kind = "Paths"
    /\ parsed.paths = closedCopies(clipperPaths)

\* C30 witness: a list of an empty sequence and a sequence of two points, one
\* of them with a negative coordinate, has gone there and back: one sequence
\* of three points is returned
ThereAndBackC30 ==
  /\ roundTripDone
  /\ belowFar(clipperPaths)
  /\ Len(clipperPaths) = 2
  /\ Len(clipperPaths[1]) = 0
  /\ Len(clipperPaths[2]) = 2
  /\ clipperPaths[2][1] # clipperPaths[2][2]
  /\ Len(parsed.paths) = 1
  /\ Len(parsed.paths[1]) = 3

====
